---- MODULE Spec2Model ----
(***************************************************************************)
(* Parquet page-encoding pipeline of cudf (cpp/src/io/parquet/page_enc.cu) *)
(* as state machines: the dremel-level builder (get_dremel_data), the page *)
(* planner (gpuInitPages), the hybrid RLE encoder (RleEncode) and the      *)
(* compression decision (gpuDecideCompression).                            *)
(*                                                                         *)
(* Indices follow the source: arrays are 0-based and read with At(s, i).   *)
(***************************************************************************)
EXTENDS Integers, Sequences, FiniteSets, TLC

At(s, i) == s[i + 1]

Min(a, b) == IF a < b THEN a ELSE b

Max(a, b) == IF a > b THEN a ELSE b

RECURSIVE SumSeq(_)
SumSeq(s) ==
  IF Len(s) = 0 THEN 0
  ELSE IF Len(s) = 1 THEN s[1]
  ELSE SumSeq(SubSeq(s, 1, Len(s) \div 2)) + SumSeq(SubSeq(s, Len(s) \div 2 + 1, Len(s)))

\* the sequence <<a, a+1, ..., b-1>> (thrust::counting_iterator range [a, b))
Counting(a, b) == [k \in 1..(b - a) |-> a + k - 1]

(***************************************************************************)
(* Input columns.  A column is a chain of schema nodes ("S" struct, "L"    *)
(* list, "I" leaf), every node with its nullability flag, validity mask    *)
(* and, for a list, its offsets; the top node may be sliced [off, off+size)*)
(***************************************************************************)
MaxRows == 2
MaxListLen == 2
MaxChildSize == 2

\* schema chains and nullability flags of the columns that are enumerated
Shapes ==
  { [kind |-> <<"L", "I">>, nullability |-> <<FALSE, FALSE>>],
    [kind |-> <<"L", "I">>, nullability |-> <<TRUE, TRUE>>],
    [kind |-> <<"L", "L", "I">>, nullability |-> <<FALSE, FALSE, FALSE>>],
    [kind |-> <<"L", "L", "I">>, nullability |-> <<TRUE, TRUE, FALSE>>],
    [kind |-> <<"L", "L", "I">>, nullability |-> <<FALSE, TRUE, TRUE>>],
    [kind |-> <<"S", "L", "I">>, nullability |-> <<TRUE, TRUE, FALSE>>],
    [kind |-> <<"L", "S", "I">>, nullability |-> <<TRUE, TRUE, TRUE>>] }

\* offsets of a list column whose rows have the lengths lens
OffsetsOf(lens) == [k \in 1..(Len(lens) + 1) |-> SumSeq(SubSeq(lens, 1, k - 1))]

\* The choices for one node of n rows.  Rows in forced lie under a null struct
\* row: they are null (when the node is nullable) and, for a list, empty.  A
\* null list row is empty.
NodeChoices(kind, nullable, n, forced) ==
  LET valids == IF nullable
                  THEN {v \in [1..n -> BOOLEAN] : \A i \in forced : ~v[i]}
                  ELSE {[k \in 1..n |-> TRUE]}
  IN  IF kind = "L"
        THEN { [valid |-> p[1], offsets |-> OffsetsOf(p[2])] :
                 p \in { q \in valids \X [1..n -> 0..MaxListLen] :
                           /\ SumSeq(q[2]) <= MaxChildSize
                           /\ \A i \in 1..n : (~q[1][i] \/ i \in forced) => q[2][i] = 0 } }
        ELSE { [valid |-> v, offsets |-> <<>>] : v \in valids }

\* number of rows of the child of a node of n rows
ChildSize(kind, node, n) == IF kind = "L" THEN node.offsets[Len(node.offsets)] ELSE n

\* rows of the child that lie under a null struct row
ChildForced(kind, node, n, forced) ==
  IF kind = "S" THEN forced \cup {i \in 1..n : ~node.valid[i]} ELSE {}

IsEmptyList(c, l, i) ==
  At(At(c.lev, l).offsets, i) = At(At(c.lev, l).offsets, i + 1)

\* col = {[], [[], [1, 2, 3], [4, 5]], [[]]} of the get_dremel_data description
ExampleColumn ==
  [kind |-> <<"L", "L", "I">>,
   nullability |-> <<FALSE, FALSE, FALSE>>,
   lev |-> << [valid |-> <<TRUE, TRUE, TRUE>>, offsets |-> <<0, 0, 3, 4>>],
              [valid |-> <<TRUE, TRUE, TRUE, TRUE>>, offsets |-> <<0, 0, 3, 5, 5>>],
              [valid |-> <<TRUE, TRUE, TRUE, TRUE, TRUE>>, offsets |-> <<>>] >>,
   off |-> 0,
   size |-> 3]

VARIABLES col, dpc, level, rep_level, def_level, new_offsets, leaf_data_size

dvars == <<col, dpc, level, rep_level, def_level, new_offsets, leaf_data_size>>

\* get_dremel_data is not running
DremelUnused ==
  /\ col = ExampleColumn
  /\ dpc = "unused"
  /\ level = -1
  /\ rep_level = <<>>
  /\ def_level = <<>>
  /\ new_offsets = <<>>
  /\ leaf_data_size = -1

\* RleEncode on one stream: the caller's input rin and bit width nbits, the
\* position rpc of the call and the page_enc_state_s fields s it works on
VARIABLES rin, nbits, rpc, state_g

rvars == <<rin, nbits, rpc, state_g>>

rle_buffer_size == 512
block_size == 128

\* state_g = page_enc_state_s{} with the stream set-up of gpuEncodePages
\* (rle_out holds the bytes of the stream written so far, lit_bytes the
\* literals packed behind the header byte of the open literal run, cur the
\* output cursor s->cur as an offset from page_data)
RleReset ==
  [numvals |-> 0, flush |-> FALSE, rle_run |-> 0, run_val |-> 0, rle_pos |-> 0,
   rle_numvals |-> 0, vals |-> [p \in 0..(rle_buffer_size - 1) |-> 0],
   rle_out |-> <<>>, lit_bytes |-> <<>>, brk |-> FALSE, cur |-> 0]

\* no stream is being encoded
RleUnused == rin = <<>> /\ nbits = 1 /\ rpc = "unused" /\ state_g = RleReset

\* One column chunk on its way through the kernels: the kernel parameters,
\* the column, its EncColumnChunk, its fragments, the pages array, what
\* gpuEncodePages wrote for every page, the compression status array, the
\* locals of gpuInitPages between two iterations, the position ppc, the
\* header that gpuEncodePageHeaders wrote for every page and what
\* gpuGatherPages copied.
VARIABLES params, col_desc, chunks, frag, pages, page_out, comp_stats, planner, ppc,
          hdr_out, gather_out

pvars == <<params, col_desc, chunks, frag, pages, page_out, comp_stats, planner, ppc,
           hdr_out, gather_out>>

\* no chunk is being written
PagesUnused ==
  /\ params = <<>>
  /\ col_desc = <<>>
  /\ chunks = <<>>
  /\ frag = <<>>
  /\ pages = <<>>
  /\ page_out = <<>>
  /\ comp_stats = <<>>
  /\ planner = <<>>
  /\ ppc = "unused"
  /\ hdr_out = <<>>
  /\ gather_out = <<>>

(***************************************************************************)
(* get_dremel_data: host-side set-up                                       *)
(***************************************************************************)
RECURSIVE get_list_level(_, _)
get_list_level(c, l) == IF At(c.kind, l) = "S" THEN get_list_level(c, l + 1) ELSE l

\* chain index at which every nesting level starts (start_at_sub_level)
RECURSIVE start_at_sub_level(_, _)
start_at_sub_level(c, l) ==
  LET j == get_list_level(c, l)
  IN  IF At(c.kind, j) = "L"
        THEN IF At(c.kind, j + 1) = "I"
               THEN <<l, j + 1>>
               ELSE <<l>> \o start_at_sub_level(c, j + 1)
        ELSE <<l>>

nesting_levels_size(c) == Len(start_at_sub_level(c, 0))

\* a variant in which a list contributes what a struct contributes
add_def_at_level_list_as_struct(c, l) ==
  LET j == get_list_level(c, l)
  IN  Cardinality({s \in l..(j - 1) : At(c.nullability, s)})
        + (IF At(c.nullability, j) THEN 1 ELSE 0)

\* add_def_at_level: the definition level contributed by one nesting level
add_def_at_level(c, l) ==
  LET j == get_list_level(c, l)
  IN  Cardinality({s \in l..(j - 1) : At(c.nullability, s)})
        + (IF At(c.nullability, j) THEN 2 ELSE 1)

\* def_at_level after thrust::exclusive_scan
def_at_level(c) ==
  LET st == start_at_sub_level(c, 0)
      contrib == [k \in 1..Len(st) |-> add_def_at_level(c, st[k])]
  IN  [k \in 1..Len(st) |-> SumSeq(SubSeq(contrib, 1, k - 1))]

\* column_offsets / column_ends: the slice applied down to the leaf
RECURSIVE column_ranges(_, _, _, _)
column_ranges(c, l, off, end) ==
  IF At(c.kind, l) = "L"
    THEN LET o2 == At(At(c.lev, l).offsets, off)
             e2 == At(At(c.lev, l).offsets, end)
         IN  <<[off |-> o2, end |-> e2]>> \o column_ranges(c, l + 1, o2, e2)
  ELSE IF At(c.kind, l) = "S" THEN column_ranges(c, l + 1, off, end)
  ELSE <<>>

column_offsets(c) ==
  LET r == <<[off |-> c.off, end |-> c.off + c.size]>>
             \o column_ranges(c, 0, c.off, c.off + c.size)
  IN  [k \in 1..Len(r) |-> r[k].off]

column_ends(c) ==
  LET r == <<[off |-> c.off, end |-> c.off + c.size]>>
             \o column_ranges(c, 0, c.off, c.off + c.size)
  IN  [k \in 1..Len(r) |-> r[k].end]

\* def_level_fn::operator(): walk the struct chain of one nesting level
RECURSIVE def_level_fn(_, _, _, _)
def_level_fn(c, l, def, i) ==
  IF At(c.nullability, l) /\ ~At(At(c.lev, l).valid, i)
    THEN def
    ELSE LET d2 == IF At(c.nullability, l) THEN def + 1 ELSE def
         IN  IF At(c.kind, l) = "S" THEN def_level_fn(c, l + 1, d2, i) ELSE d2

\* get_empties: row indices of the empty lists of a nesting level
empties_idx(c, lvl) ==
  LET j == get_list_level(c, At(start_at_sub_level(c, 0), lvl))
  IN  SelectSeq(Counting(At(column_offsets(c), lvl), At(column_ends(c), lvl)),
                LAMBDA i : IsEmptyList(c, j, i))

\* get_empties: the offsets gathered at empties_idx
empties(c, lvl) ==
  LET j   == get_list_level(c, At(start_at_sub_level(c, 0), lvl))
      idx == empties_idx(c, lvl)
  IN  [k \in 1..Len(idx) |-> At(At(c.lev, j).offsets, idx[k])]

\* a merge in which a tie goes to the second range
RECURSIVE merge_by_key_second_first(_, _, _, _)
merge_by_key_second_first(k1, v1, k2, v2) ==
  IF k1 = <<>> THEN v2
  ELSE IF k2 = <<>> THEN v1
  ELSE IF Head(k2) <= Head(k1)
    THEN <<Head(v2)>> \o merge_by_key_second_first(k1, v1, Tail(k2), Tail(v2))
    ELSE <<Head(v1)>> \o merge_by_key_second_first(Tail(k1), Tail(v1), k2, v2)

\* thrust::merge_by_key: stable, a tie goes to the first range
RECURSIVE merge_by_key(_, _, _, _)
merge_by_key(k1, v1, k2, v2) ==
  IF k1 = <<>> THEN v2
  ELSE IF k2 = <<>> THEN v1
  ELSE IF Head(k2) < Head(k1)
    THEN <<Head(v2)>> \o merge_by_key(k1, v1, Tail(k2), Tail(v2))
    ELSE <<Head(v1)>> \o merge_by_key(Tail(k1), Tail(v1), k2, v2)

\* values of the parent range of a merge: (rep = level, def of the empty list)
input_parent(c, lvl) ==
  LET idx == empties_idx(c, lvl)
  IN  [k \in 1..Len(idx) |->
         [rep |-> lvl,
          def |-> def_level_fn(c, At(start_at_sub_level(c, 0), lvl),
                               At(def_at_level(c), lvl), idx[k])]]

\* a scan that forgets the slots inserted for the empty lists
scan_out_no_shift(c, lvl) ==
  [k \in 1..(At(column_ends(c), lvl) - At(column_offsets(c), lvl) + 1) |-> 0]

\* exclusive scan of "row i is an empty list", over offset_size_at_level entries
scan_out(c, lvl) ==
  LET j    == get_list_level(c, At(start_at_sub_level(c, 0), lvl))
      co   == At(column_offsets(c), lvl)
      n    == At(column_ends(c), lvl) - co + 1
      size == Len(At(c.lev, j).offsets)
      flag == [k \in 1..n |->
                 IF (co + k - 1) + 1 < size /\ IsEmptyList(c, j, co + k - 1) THEN 1 ELSE 0]
  IN  [k \in 1..n |-> SumSeq(SubSeq(flag, 1, k - 1))]

\* a scatter that writes the level of the child instead of the level merged
scatter_child_level(rep, offs, lvl) ==
  [p \in 1..Len(rep) |->
     IF \E k \in 1..(Len(offs) - 1) : offs[k] = p - 1 THEN lvl + 1 ELSE rep[p]]

\* a scatter that leaves out the start of the first list
scatter_all_but_first(rep, offs, lvl) ==
  [p \in 1..Len(rep) |->
     IF \E k \in 2..(Len(offs) - 1) : offs[k] = p - 1 THEN lvl ELSE rep[p]]

\* thrust::scatter of the constant lvl to the starts of the lists
scatter(rep, offs, lvl) ==
  [p \in 1..Len(rep) |->
     IF \E k \in 1..(Len(offs) - 1) : offs[k] = p - 1 THEN lvl ELSE rep[p]]

RepOf(zip) == [k \in 1..Len(zip) |-> zip[k].rep]

DefOf(zip) == [k \in 1..Len(zip) |-> zip[k].def]

Zip(rep, def) == [k \in 1..Len(rep) |-> [rep |-> rep[k], def |-> def[k]]]

(***************************************************************************)
(* get_dremel_data: the three steps of the bottom-up merge                 *)
(***************************************************************************)
Init ==
  /\ \/ col = ExampleColumn
     \/ \E sh \in Shapes, n \in 0..MaxRows :
          \E o \in 0..n, n0 \in NodeChoices(sh.kind[1], sh.nullability[1], n, {}) :
            LET s1 == ChildSize(sh.kind[1], n0, n)
                f1 == ChildForced(sh.kind[1], n0, n, {})
            IN  \E n1 \in NodeChoices(sh.kind[2], sh.nullability[2], s1, f1) :
                  IF Len(sh.kind) = 2
                    THEN col = [kind |-> sh.kind, nullability |-> sh.nullability,
                                lev |-> <<n0, n1>>, off |-> o, size |-> n - o]
                    ELSE \E n2 \in NodeChoices(sh.kind[3], sh.nullability[3],
                                               ChildSize(sh.kind[2], n1, s1),
                                               ChildForced(sh.kind[2], n1, s1, f1)) :
                           col = [kind |-> sh.kind, nullability |-> sh.nullability,
                                  lev |-> <<n0, n1, n2>>, off |-> o, size |-> n - o]
  /\ dpc = "start"
  /\ level = -1
  /\ rep_level = <<>>
  /\ def_level = <<>>
  /\ new_offsets = <<>>
  /\ leaf_data_size = -1
  /\ RleUnused
  /\ PagesUnused

\* merge of the leaf with the deepest list level
MergeLeaf ==
  /\ dpc = "start"
  /\ LET nl    == nesting_levels_size(col)
         lvl   == nl - 2
         j     == get_list_level(col, At(start_at_sub_level(col, 0), lvl))
         co    == At(column_offsets(col), lvl)
         child == Counting(At(column_offsets(col), lvl + 1), At(column_ends(col), lvl + 1))
         input_child ==
           [k \in 1..Len(child) |->
              [rep |-> nl - 1,
               def |-> def_level_fn(col, At(start_at_sub_level(col, 0), lvl + 1),
                                    At(def_at_level(col), lvl + 1), child[k])]]
         merged == merge_by_key(empties(col, lvl), input_parent(col, lvl), child, input_child)
         so    == scan_out(col, lvl)
         off   == At(col.lev, j).offsets
         noff  == [k \in 1..Len(so) |-> At(off, co + k - 1) - At(off, co) + so[k]]
     IN  /\ rep_level' = scatter(RepOf(merged), noff, lvl)
         /\ def_level' = DefOf(merged)
         /\ new_offsets' = noff
         /\ level' = nl - 3
  /\ dpc' = "merge"
  /\ UNCHANGED <<col, leaf_data_size, rvars, pvars>>

\* one iteration of the loop over the shallower levels
MergeLevel ==
  /\ dpc = "merge"
  /\ level >= 0
  /\ LET j  == get_list_level(col, At(start_at_sub_level(col, 0), level))
         co == At(column_offsets(col), level)
         child_start == At(column_offsets(col), level + 1)
         offset_transformer(x) == At(new_offsets, x - child_start)
         emp == empties(col, level)
         transformed_empties == [k \in 1..Len(emp) |-> offset_transformer(emp[k])]
         merged == merge_by_key(transformed_empties, input_parent(col, level),
                                Counting(0, Len(rep_level)), Zip(rep_level, def_level))
         so   == scan_out(col, level)
         off  == At(col.lev, j).offsets
         noff == [k \in 1..Len(so) |-> offset_transformer(At(off, co + k - 1)) + so[k]]
     IN  /\ rep_level' = scatter(RepOf(merged), noff, level)
         /\ def_level' = DefOf(merged)
         /\ new_offsets' = noff
  /\ level' = level - 1
  /\ UNCHANGED <<col, dpc, leaf_data_size, rvars, pvars>>

\* resize to new_offsets.back_element() and return
Finish ==
  /\ dpc = "merge"
  /\ level < 0
  /\ LET level_vals_size == new_offsets[Len(new_offsets)]
     IN  /\ rep_level' = SubSeq(rep_level, 1, level_vals_size)
         /\ def_level' = SubSeq(def_level, 1, level_vals_size)
  /\ leaf_data_size' =
       column_ends(col)[Len(column_ends(col))] - column_offsets(col)[Len(column_offsets(col))]
  /\ dpc' = "done"
  /\ UNCHANGED <<col, level, new_offsets, rvars, pvars>>

Next == MergeLeaf \/ MergeLevel \/ Finish

vars == <<dvars, rvars, pvars>>

Spec == Init /\ [][Next]_vars

(***************************************************************************)
(* The per-row recursive walk of the nested structure: one slot per leaf   *)
(* value, one slot per empty (or null) list, in row order.  r is the       *)
(* repetition level of the first slot of the subtree, k the number of list *)
(* levels above it, d the definition level reached so far.                 *)
(***************************************************************************)
RECURSIVE Walk(_, _, _, _, _, _)
RECURSIVE WalkList(_, _, _, _, _, _, _)
Walk(c, l, i, r, k, d) ==
  IF At(c.nullability, l) /\ ~At(At(c.lev, l).valid, i)
    THEN <<[rep |-> r, def |-> d]>>
    ELSE LET d1 == IF At(c.nullability, l) THEN d + 1 ELSE d
         IN  IF At(c.kind, l) = "I" THEN <<[rep |-> r, def |-> d1]>>
             ELSE IF At(c.kind, l) = "S" THEN Walk(c, l + 1, i, r, k, d1)
             ELSE IF IsEmptyList(c, l, i) THEN <<[rep |-> r, def |-> d1]>>
             ELSE WalkList(c, l, At(At(c.lev, l).offsets, i),
                           At(At(c.lev, l).offsets, i + 1), r, k + 1, d1 + 1)

WalkList(c, l, j, end, r, k, d) ==
  IF j >= end THEN <<>>
  ELSE Walk(c, l + 1, j, r, k, d) \o WalkList(c, l, j + 1, end, k, k, d)

RECURSIVE WalkRows(_, _, _)
WalkRows(c, i, end) ==
  IF i >= end THEN <<>> ELSE Walk(c, 0, i, 0, 0, 0) \o WalkRows(c, i + 1, end)

RecursiveDremel(c) == WalkRows(c, c.off, c.off + c.size)

\* number of empty lists of list node l among its rows [off, end)
NumEmptyLists(c, l, off, end) ==
  Cardinality({i \in off..(end - 1) : IsEmptyList(c, l, i)})

\* empty lists in range, summed over the list nodes of the chain
RECURSIVE EmptyListsInRange(_, _, _, _)
EmptyListsInRange(c, l, off, end) ==
  IF At(c.kind, l) = "L"
    THEN NumEmptyLists(c, l, off, end)
           + EmptyListsInRange(c, l + 1, At(At(c.lev, l).offsets, off),
                               At(At(c.lev, l).offsets, end))
  ELSE IF At(c.kind, l) = "S" THEN EmptyListsInRange(c, l + 1, off, end)
  ELSE 0

RECURSIVE LeafValuesInRange(_, _, _, _)
LeafValuesInRange(c, l, off, end) ==
  IF At(c.kind, l) = "L"
    THEN LeafValuesInRange(c, l + 1, At(At(c.lev, l).offsets, off),
                           At(At(c.lev, l).offsets, end))
  ELSE IF At(c.kind, l) = "S" THEN LeafValuesInRange(c, l + 1, off, end)
  ELSE end - off

(***************************************************************************)
(* Properties of the dremel-level builder                                  *)
(***************************************************************************)

C3_MergeEqualsRecursiveWalk ==
  dpc = "done" => Zip(rep_level, def_level) = RecursiveDremel(col)

C3_Witness ==
  /\ dpc = "done"
  /\ Len(col.kind) = 3
  /\ \E k \in 1..Len(rep_level) : rep_level[k] = 2
  /\ \E k \in 1..Len(rep_level) : def_level[k] = 0
  /\ EmptyListsInRange(col, 0, col.off, col.off + col.size) >= 2

\* C4: the number of value slots is the number of leaf values in range plus
\* the number of empty lists in range at every list level, and it is the last
\* element of the reindexed top-level offsets.
C4_SlotCount ==
  /\ dpc \in {"merge", "done"} =>
       /\ Len(rep_level) = new_offsets[Len(new_offsets)]
       /\ Len(def_level) = Len(rep_level)
  /\ dpc = "done" =>
       /\ leaf_data_size = LeafValuesInRange(col, 0, col.off, col.off + col.size)
       /\ Len(rep_level) =
            leaf_data_size + EmptyListsInRange(col, 0, col.off, col.off + col.size)

C4_Witness ==
  /\ dpc = "done"
  /\ col.off > 0
  /\ leaf_data_size >= 2
  /\ EmptyListsInRange(col, 0, col.off, col.off + col.size) >= 1
  /\ Len(rep_level) >= 3

(***************************************************************************)
(* The definition level by kind of node.  The slots of row i of node l lie *)
(* together in the output: FirstSlot counts the slots of the rows of the   *)
(* node in front of it, SlotCount those of the row.                        *)
(***************************************************************************)
\* rows [off, end) of node l that belong to the slice of the column
RECURSIVE NodeRange(_, _)
NodeRange(c, l) ==
  IF l = 0 THEN [off |-> c.off, end |-> c.off + c.size]
  ELSE LET r == NodeRange(c, l - 1)
       IN  IF At(c.kind, l - 1) = "L"
             THEN [off |-> At(At(c.lev, l - 1).offsets, r.off),
                   end |-> At(At(c.lev, l - 1).offsets, r.end)]
             ELSE r

\* number of value slots of row i of node l
RECURSIVE SlotCount(_, _, _)
SlotCount(c, l, i) ==
  IF At(c.kind, l) = "I" THEN 1
  ELSE IF At(c.kind, l) = "S" THEN SlotCount(c, l + 1, i)
  ELSE IF IsEmptyList(c, l, i) THEN 1
  ELSE SumSeq([k \in 1..(At(At(c.lev, l).offsets, i + 1) - At(At(c.lev, l).offsets, i)) |->
                 SlotCount(c, l + 1, At(At(c.lev, l).offsets, i) + k - 1)])

\* the row of list node l that holds row i of its child
ParentRow(c, l, i) ==
  CHOOSE q \in 0..(Len(At(c.lev, l).offsets) - 2) :
    At(At(c.lev, l).offsets, q) <= i /\ i < At(At(c.lev, l).offsets, q + 1)

\* number of slots in front of the first slot of row i of node l
RECURSIVE FirstSlot(_, _, _)
FirstSlot(c, l, i) ==
  IF l = 0 THEN SumSeq([k \in 1..(i - c.off) |-> SlotCount(c, 0, c.off + k - 1)])
  ELSE IF At(c.kind, l - 1) = "S" THEN FirstSlot(c, l - 1, i)
  ELSE LET p == ParentRow(c, l - 1, i)
           first == At(At(c.lev, l - 1).offsets, p)
       IN  FirstSlot(c, l - 1, p)
             + SumSeq([k \in 1..(i - first) |-> SlotCount(c, l, first + k - 1)])

\* the accumulated definition base of node l: 1 for every nullable node and
\* 1 for every list above it
DefBase(c, l) ==
  Cardinality({j \in 0..(l - 1) : At(c.nullability, j)})
    + Cardinality({j \in 0..(l - 1) : At(c.kind, j) = "L"})

\* every node above row i of node l is valid there
RECURSIVE DefinedAbove(_, _, _)
DefinedAbove(c, l, i) ==
  IF l = 0 THEN TRUE
  ELSE IF At(c.kind, l - 1) = "S"
    THEN (At(c.nullability, l - 1) => At(At(c.lev, l - 1).valid, i))
           /\ DefinedAbove(c, l - 1, i)
  ELSE LET p == ParentRow(c, l - 1, i)
       IN  (At(c.nullability, l - 1) => At(At(c.lev, l - 1).valid, p))
             /\ DefinedAbove(c, l - 1, p)

\* the definition levels of the slots of row i of node l
SlotDefs(c, l, i) ==
  [k \in 1..SlotCount(c, l, i) |-> def_level[FirstSlot(c, l, i) + k]]

\* what the claim says about row i of the list or nullable struct node l
DefOfRow(c, l, i) ==
  LET b     == DefBase(c, l)
      nl    == At(c.nullability, l)
      valid == ~nl \/ At(At(c.lev, l).valid, i)
      defs  == SlotDefs(c, l, i)
  IN  IF At(c.kind, l) = "L"
        THEN IF ~valid THEN defs = <<b>>
             ELSE IF IsEmptyList(c, l, i) THEN defs = <<IF nl THEN b + 1 ELSE b>>
             ELSE \A k \in 1..Len(defs) : defs[k] >= (IF nl THEN b + 2 ELSE b + 1)
      ELSE IF At(c.kind, l) = "S" /\ nl
        THEN IF ~valid THEN \A k \in 1..Len(defs) : defs[k] = b
             ELSE /\ \A k \in 1..Len(defs) : defs[k] >= b + 1
                  /\ (At(c.nullability, l + 1) /\ ~At(At(c.lev, l + 1).valid, i))
                       => defs = <<b + 1>>
      ELSE TRUE

\* C23: with b the accumulated definition base of a level, a null row of a
\* nullable list has one slot with def = b, a valid empty one a slot with
\* def = b + 1, and the slots of a non-empty one have def >= b + 2; an
\* empty row of a non-nullable list has def = b and the slots inside a
\* non-empty one def >= b + 1; a nullable struct adds exactly 1 when valid
\* (def = b where it is null, b + 1 where it is valid and its child null).
C23_DefByKind ==
  dpc = "done" =>
    \A l \in 0..(Len(col.kind) - 2) :
      \A i \in NodeRange(col, l).off..(NodeRange(col, l).end - 1) :
        DefinedAbove(col, l, i) => DefOfRow(col, l, i)

\* a nullable list under a nullable struct has a null row and a non-empty
\* row under valid struct rows
C23_Witness ==
  /\ dpc = "done"
  /\ col.kind = <<"S", "L", "I">>
  /\ col.off = 0
  /\ col.size = 2
  /\ col.lev[1].valid = <<TRUE, TRUE>>
  /\ col.lev[2].valid = <<FALSE, TRUE>>
  /\ ~IsEmptyList(col, 1, 1)
  /\ def_level[1] = 1
  /\ def_level[2] = 3

\* the number of lists above node l
ListDepth(c, l) == Cardinality({j \in 0..(l - 1) : At(c.kind, j) = "L"})

\* C25: in the output of get_dremel_data the first slot of every top-level
\* row has repetition level 0 and no other slot has, so the zeros are as
\* many as the rows; the first slot of every list with L lists above it has
\* a repetition level of at most L.
C25_RepAtListStarts ==
  dpc = "done" =>
    /\ \A i \in col.off..(col.off + col.size - 1) :
         rep_level[FirstSlot(col, 0, i) + 1] = 0
    /\ Cardinality({p \in 1..Len(rep_level) : rep_level[p] = 0}) = col.size
    /\ \A l \in 0..(Len(col.kind) - 2) :
         At(col.kind, l) = "L" =>
           \A i \in NodeRange(col, l).off..(NodeRange(col, l).end - 1) :
             rep_level[FirstSlot(col, l, i) + 1] <= ListDepth(col, l)

\* two rows of a list of lists: the second row starts with an inner list of
\* two values and holds a second inner list
C25_Witness ==
  /\ dpc = "done"
  /\ col.kind = <<"L", "L", "I">>
  /\ col.size = 2
  /\ Len(rep_level) >= 4
  /\ \E p \in 2..(Len(rep_level) - 2) :
       rep_level[p] = 0 /\ rep_level[p + 1] = 2 /\ rep_level[p + 2] = 1

(***************************************************************************)
(* RleEncode: the hybrid RLE / bit-packed encoder, one while-loop iteration*)
(* per step.  rle_out is the byte stream written up to s->rle_out and      *)
(* lit_bytes the literal payload already packed behind the (not yet        *)
(* written) header byte of the open literal run.                           *)
(***************************************************************************)
MaxSegs == 2

Pow2(n) == 2 ^ n

\* bit b of the unsigned value v
Bit(v, b) == (v \div Pow2(b)) % 2

\* a table that asks for one equal pair at every width
kRleRunMaskOnePair == <<1, 1, 1, 1, 1, 1, 1, 1, 1, 1, 1, 1, 1, 1, 1, 1>>

kRleRunMask ==
  <<16777215, 4095, 255, 63, 15, 15, 7, 7, 3, 3, 3, 3, 1, 1, 1, 1>>

\* a VlqEncode that drops the continuation bit
RECURSIVE VlqEncodeNoFlag(_)
VlqEncodeNoFlag(v) ==
  IF v > 127 THEN <<v % 128>> \o VlqEncodeNoFlag(v \div 128) ELSE <<v>>

RECURSIVE VlqEncode(_)
VlqEncode(v) ==
  IF v > 127 THEN <<(v % 128) + 128>> \o VlqEncode(v \div 128) ELSE <<v>>

\* byte k of the bit stream in which lane t holds bits [t*w, t*w + w)
StreamByte(v, w, k) ==
  LET b(j) == Bit(v[(8 * k + j) \div w], (8 * k + j) % w)
  IN  b(0) + 2 * b(1) + 4 * b(2) + 8 * b(3) + 16 * b(4) + 32 * b(5) + 64 * b(6) + 128 * b(7)

\* a packing of the 12-bit pairs that stores the high byte of the pair first
PackLiteralsSwapped12(v, count, w) ==
  IF w = 12
    THEN [k \in 1..((count * w) \div 8) |->
            LET pair == v[2 * ((k - 1) \div 3)] + 4096 * v[2 * ((k - 1) \div 3) + 1]
            IN  (pair \div Pow2(8 * (2 - ((k - 1) % 3)))) % 256]
  ELSE IF w = 8 THEN [k \in 1..count |-> v[k - 1] % 256]
  ELSE IF w = 16
    THEN [k \in 1..(2 * count) |-> (v[(k - 1) \div 2] \div Pow2(8 * ((k - 1) % 2))) % 256]
  ELSE [k \in 1..((count * w) \div 8) |-> StreamByte(v, w, k - 1)]

\* PackLiterals: the bytes dst[0 .. count*w/8) written for the lane values v
PackLiterals(v, count, w) ==
  IF w = 1 \/ w = 2 \/ w = 4
    THEN \* lanes are OR-ed together by shuffle_xor, one byte per 8/w lanes
         LET per == 8 \div w
         IN  [k \in 1..(count \div per) |->
                SumSeq([i \in 1..per |-> v[(k - 1) * per + i - 1] * Pow2((i - 1) * w)]) % 256]
  ELSE IF w = 8 THEN [k \in 1..count |-> v[k - 1] % 256]
  ELSE IF w = 12
    THEN [k \in 1..((count * w) \div 8) |->
            LET pair == v[2 * ((k - 1) \div 3)] + 4096 * v[2 * ((k - 1) \div 3) + 1]
            IN  (pair \div Pow2(8 * ((k - 1) % 3))) % 256]
  ELSE IF w = 16
    THEN [k \in 1..(2 * count) |-> (v[(k - 1) \div 2] \div Pow2(8 * ((k - 1) % 2))) % 256]
  ELSE \* atomicOr into scratch, then the first (count*w+7)/8 bytes are copied
       [k \in 1..((count * w + 7) \div 8) |-> StreamByte(v, w, k - 1)]

ValAt(st, p) == st.vals[p % rle_buffer_size]

\* number of consecutive lanes t, t+1, ... below n for which m holds
LeadingTrue(m, t, n) ==
  (CHOOSE u \in t..n : (u = n \/ ~m[u]) /\ \A x \in t..(u - 1) : m[x]) - t

\* the loop condition of RleEncode
RleLoopCond(st) == st.rle_pos < st.numvals \/ (st.flush /\ st.rle_run # 0)

\* a variant that writes a repeat run only when a different value follows
RleIterRepeatNoFlushEmit(st, w) ==
  LET m == [t \in 0..(block_size - 1) |->
              st.rle_pos + t < st.numvals /\ ValAt(st, st.rle_pos + t) = st.run_val]
      rle_rpt_count == LeadingTrue(m, 0, block_size)
      max_rpt_count == Min(st.numvals - st.rle_pos, block_size)
      emit == rle_rpt_count < max_rpt_count
  IN  [st EXCEPT
         !.rle_out = IF emit
                       THEN st.rle_out \o VlqEncode(st.rle_run + 2 * rle_rpt_count)
                              \o <<st.run_val % 256>>
                              \o (IF w > 8 THEN <<st.run_val \div 256>> ELSE <<>>)
                       ELSE st.rle_out,
         !.rle_run = IF emit THEN 0 ELSE st.rle_run + 2 * rle_rpt_count,
         !.rle_pos = st.rle_pos + rle_rpt_count]

\* "currently in a long repeat run": the state after the iteration
RleIterRepeat(st, w) ==
  LET m == [t \in 0..(block_size - 1) |->
              st.rle_pos + t < st.numvals /\ ValAt(st, st.rle_pos + t) = st.run_val]
      rle_rpt_count == LeadingTrue(m, 0, block_size)
      max_rpt_count == Min(st.numvals - st.rle_pos, block_size)
      run2 == st.rle_run + 2 * rle_rpt_count
      pos2 == st.rle_pos + rle_rpt_count
      emit == rle_rpt_count < max_rpt_count \/ (st.flush /\ pos2 = st.numvals)
  IN  [st EXCEPT
         !.rle_out = IF emit
                       THEN st.rle_out \o VlqEncode(run2) \o <<st.run_val % 256>>
                              \o (IF w > 8 THEN <<st.run_val \div 256>> ELSE <<>>)
                       ELSE st.rle_out,
         !.rle_run = IF emit THEN 0 ELSE run2,
         !.rle_pos = pos2]

\* "new run or in a literal run", thread 0 of the first warp: the number of
\* literals before the next repeat run (rle_lit_count) and the length of that
\* run (rle_rpt_count) among the next maxvals values
RleRunStart(st, w) ==
  LET eq == [t \in 0..(block_size + 31) |->
               /\ t < block_size
               /\ st.rle_pos + t + 1 < st.numvals
               /\ ValAt(st, st.rle_pos + t) = ValAt(st, st.rle_pos + t + 1)]
      maxvals == Min(st.numvals - st.rle_pos, block_size)
      needed == {j \in 0..23 : Bit(kRleRunMask[w], j) = 1}
      cand == {t \in 0..15 : \A j \in needed : eq[8 * t + j]}
      rle_run_start ==
        IF cand # {} THEN Min(8 * (CHOOSE t \in cand : \A u \in cand : t <= u), maxvals)
        ELSE maxvals
      rpt_len == IF rle_run_start < maxvals
                   THEN LeadingTrue(eq, rle_run_start, block_size) ELSE 0
  IN  [rle_lit_count |-> rle_run_start,
       rle_rpt_count |-> Min(rpt_len, maxvals - rle_run_start)]

\* the end of the iteration: the literal run is completed when it is long
\* enough or has to end, and a repeat run is started
RleLiteralEnd(st, w, lit0, enter, need_more_data, rpt1, run1, pos1, lit2) ==
  LET complete == enter /\ run1 >= (IF rpt1 # 0 \/ (st.flush /\ pos1 = st.numvals)
                                      THEN 3 ELSE 127)
      start == rpt1 # 0 /\ ~need_more_data
  IN  [st EXCEPT
         !.rle_out = IF complete
                       THEN st.rle_out \o <<run1>> \o SubSeq(lit2, 1, w * (run1 \div 2))
                       ELSE st.rle_out,
         !.lit_bytes = IF complete THEN <<>> ELSE lit2,
         !.run_val = IF start THEN ValAt(st, st.rle_pos + lit0) ELSE st.run_val,
         !.rle_run = IF start THEN rpt1 * 2 ELSE IF complete THEN 0 ELSE run1,
         !.rle_pos = IF start THEN pos1 + rpt1 ELSE pos1,
         !.brk = need_more_data \/ (start /\ pos1 + rpt1 + 1 = st.numvals /\ ~st.flush)]

\* lit_div8 groups of 8 literals are packed behind the literals of the open run
RleLiteralPack(st, w, lit0, enter, need_more_data, rpt1, lit_div8) ==
  LET v == [t \in 0..(block_size - 1) |->
              IF st.rle_pos + t < st.numvals THEN ValAt(st, st.rle_pos + t) ELSE 0]
  IN  IF lit_div8 # 0
        THEN RleLiteralEnd(st, w, lit0, enter, need_more_data, rpt1,
                           ((st.rle_run + lit_div8 * 2) \div 2) * 2 + 1,
                           Min(st.rle_pos + lit_div8 * 8, st.numvals),
                           SubSeq(st.lit_bytes, 1, (st.rle_run \div 2) * w)
                             \o PackLiterals(v, lit_div8 * 8, w))
        ELSE RleLiteralEnd(st, w, lit0, enter, need_more_data, rpt1,
                           st.rle_run, st.rle_pos, st.lit_bytes)

\* a variant that takes every group at once, whatever the header becomes
RleLiteralCountUnlimited(st, w, lit0, rpt0, enter, need_more_data, lit1) ==
  LET div0 == (lit1 + (IF st.flush /\ st.rle_pos + lit1 = st.numvals THEN 7 ELSE 0)) \div 8
  IN  RleLiteralPack(st, w, lit0, enter, need_more_data, rpt0,
                     IF ~enter \/ lit1 = 0 THEN 0 ELSE div0)

\* the number of groups of 8 literals taken now: a literal run has a one-byte
\* header (at most 63 groups), and then the repeat run is deferred
RleLiteralCount(st, w, lit0, rpt0, enter, need_more_data, lit1) ==
  LET div0 == (lit1 + (IF st.flush /\ st.rle_pos + lit1 = st.numvals THEN 7 ELSE 0)) \div 8
      limited == enter /\ lit1 # 0 /\ st.rle_run + div0 * 2 > 127
  IN  RleLiteralPack(st, w, lit0, enter, need_more_data,
                     IF limited THEN 0 ELSE rpt0,
                     IF ~enter \/ lit1 = 0 THEN 0
                     ELSE IF limited THEN 63 - (st.rle_run \div 2) ELSE div0)

\* without flush the last literals (up to 24) wait for more data
RleLiteralWait(st, w, lit0, rpt0, enter) ==
  LET need_more_data == enter /\ ~st.flush /\ st.rle_pos + lit0 = st.numvals
  IN  RleLiteralCount(st, w, lit0, rpt0, enter, need_more_data,
                      IF need_more_data THEN lit0 - Min(lit0, 24) ELSE lit0)

\* "new run or in a literal run": the state after the iteration
RleIterLiteral(st, w) ==
  LET r == RleRunStart(st, w)
  IN  RleLiteralWait(st, w, r.rle_lit_count, r.rle_rpt_count,
                     r.rle_lit_count # 0 \/ (st.rle_run # 0 /\ r.rle_rpt_count # 0))

\* one iteration of the while loop of RleEncode
RleIteration(st, w) ==
  IF st.rle_run > 0 /\ st.rle_run % 2 = 0 THEN RleIterRepeat(st, w) ELSE RleIterLiteral(st, w)

\* the while loop of RleEncode, from st to the state in which it is left
RECURSIVE RleLoop(_, _)
RleLoop(st, w) ==
  IF st.brk \/ ~RleLoopCond(st) THEN st ELSE RleLoop(RleIteration(st, w), w)

\* a whole call RleEncode(s, numvals, nbits, flush, t)
RleEncode(st, numvals, w, flush) ==
  [RleLoop([st EXCEPT !.numvals = numvals, !.flush = flush, !.brk = FALSE], w)
     EXCEPT !.rle_numvals = numvals, !.brk = FALSE]

\* s->vals after all block_size lanes have stored their level of the batch
\* that starts at st.rle_numvals (0 for the lanes past the end of lvl)
StageLevels(st, lvl) ==
  [p \in 0..(rle_buffer_size - 1) |->
     LET t == (p - st.rle_numvals) % rle_buffer_size
     IN  IF t < block_size
           THEN IF st.rle_numvals + t < Len(lvl) THEN At(lvl, st.rle_numvals + t) ELSE 0
           ELSE st.vals[p]]

\* the caller (level loop of gpuEncodePages) stages the next batch of levels
\* and calls RleEncode
RleFeed ==
  /\ rpc = "idle"
  /\ state_g.rle_numvals < Len(rin)
  /\ LET nvals == Min(Len(rin) - state_g.rle_numvals, block_size)
     IN  state_g' = [state_g EXCEPT !.vals = StageLevels(state_g, rin),
                        !.numvals = state_g.rle_numvals + nvals,
                        !.flush = (state_g.rle_numvals + nvals = Len(rin)),
                        !.brk = FALSE]
  /\ rpc' = "loop"
  /\ UNCHANGED <<rin, nbits, dvars, pvars>>

\* one iteration of the while loop
RleIter ==
  /\ rpc = "loop"
  /\ ~state_g.brk
  /\ RleLoopCond(state_g)
  /\ state_g' = RleIteration(state_g, nbits)
  /\ UNCHANGED <<rin, nbits, rpc, dvars, pvars>>

\* the loop is left: s->rle_run, s->rle_pos and s->rle_numvals are stored
RleReturn ==
  /\ rpc = "loop"
  /\ state_g.brk \/ ~RleLoopCond(state_g)
  /\ state_g' = [state_g EXCEPT !.rle_numvals = state_g.numvals, !.brk = FALSE]
  /\ rpc' = IF state_g.flush THEN "done" ELSE "idle"
  /\ UNCHANGED <<rin, nbits, dvars, pvars>>

\* input streams: up to MaxSegs segments, each a run of one value or a stretch
\* in which no two neighbours are equal
SegChoices ==
  { [rep |-> TRUE, len |-> 1], [rep |-> TRUE, len |-> 7], [rep |-> TRUE, len |-> 26],
    [rep |-> TRUE, len |-> 128],
    [rep |-> TRUE, len |-> 300], [rep |-> FALSE, len |-> 7], [rep |-> FALSE, len |-> 128],
    [rep |-> FALSE, len |-> 260] }

SegValue(seg, k, w, i) ==
  IF seg.rep THEN (IF k % 2 = 1 THEN Pow2(w) - 1 ELSE 0)
  ELSE (5 * i + k) % Pow2(w)

RECURSIVE SegsToSeq(_, _, _)
SegsToSeq(segs, k, w) ==
  IF k > Len(segs) THEN <<>>
  ELSE [i \in 1..segs[k].len |-> SegValue(segs[k], k, w, i)] \o SegsToSeq(segs, k + 1, w)

InitRle ==
  /\ nbits \in 1..16
  /\ \E n \in 1..MaxSegs : \E segs \in [1..n -> SegChoices] :
       rin = SegsToSeq(segs, 1, nbits)
  /\ rpc = "idle"
  /\ state_g = RleReset
  /\ DremelUnused
  /\ PagesUnused

NextRle == RleFeed \/ RleIter \/ RleReturn

SpecRle == InitRle /\ [][NextRle]_vars

(***************************************************************************)
(* Where RleEncode starts a repeat run.                                    *)
(***************************************************************************)
\* the step leaves "new run or in a literal run" with a repeat run started
StartsRepeatRun ==
  /\ rpc = "loop"
  /\ ~(state_g.rle_run > 0 /\ state_g.rle_run % 2 = 0)
  /\ state_g'.rle_run > 0
  /\ state_g'.rle_run % 2 = 0

\* index in rin (from 0) of the first value of the repeat run that st is in
RunStart(st) == st.rle_pos - st.rle_run \div 2

\* the n values of rin from index p on exist and are equal
EqualFrom(p, n) == p + n <= Len(rin) /\ \A k \in 1..n : rin[p + k] = rin[p + 1]

\* consecutive equal values that kRleRunMask[nbits - 1] asks for: one more
\* than the number of bits set
MinRunValues == <<25, 13, 9, 7, 5, 5, 4, 4, 3, 3, 3, 3, 2, 2, 2, 2>>

\* C21 as stated: a repeat run starts only where at least 8 consecutive
\* equal values are present, for every bit width.
C21_RepeatRunNeeds8 ==
  [][StartsRepeatRun => EqualFrom(RunStart(state_g'), 8)]_vars

\* C21: a repeat run starts only where the number of consecutive equal
\* values that kRleRunMask asks for at the bit width are present (25, 13, 9,
\* 7, 5, 5, 4, 4, 3, 3, 3, 3, 2, 2, 2, 2 for nbits = 1..16), which is at
\* least 8 for nbits <= 3 only.
C21_RepeatRunNeedsMask ==
  [][StartsRepeatRun =>
       /\ EqualFrom(RunStart(state_g'), MinRunValues[nbits])
       /\ nbits <= 3 => EqualFrom(RunStart(state_g'), 8)]_vars

\* a repeat run is open at width 4 on exactly 7 equal values
C21_Witness ==
  /\ rpc = "loop"
  /\ nbits = 4
  /\ state_g.rle_run > 0
  /\ state_g.rle_run % 2 = 0
  /\ EqualFrom(RunStart(state_g), 7)
  /\ ~EqualFrom(RunStart(state_g), 8)

(***************************************************************************)
(* The literal runs that RleEncode emits.                                  *)
(***************************************************************************)
\* the step completes a literal run: bytes are appended to the stream by an
\* iteration of "new run or in a literal run"
EmitsLiteralRun ==
  /\ rpc = "loop"
  /\ ~(state_g.rle_run > 0 /\ state_g.rle_run % 2 = 0)
  /\ state_g'.rle_out # state_g.rle_out

\* the bytes b behind a stream of length n
AppendedTo(n, b) == SubSeq(b, n + 1, Len(b))

\* index in rin (from 0) behind the last literal of a run completed by a
\* step that ends in st
LiteralEnd(st) ==
  st.rle_pos - (IF st.rle_run > 0 /\ st.rle_run % 2 = 0 THEN st.rle_run \div 2 ELSE 0)

\* value k (from 1) of a run of literals of width w packed in the bytes pay
LiteralAt(pay, w, k) ==
  SumSeq([j \in 1..w |->
            Bit(pay[((k - 1) * w + j - 1) \div 8 + 1], ((k - 1) * w + j - 1) % 8)
              * Pow2(j - 1)])

\* run is one literal run: a header byte (count / 8) << 1 | 1 of at most
\* 0x7f, then count values of width w, which are the values of rin in front
\* of index e followed, when flush ended the stream there, by zeros up to the
\* end of the last group
IsLiteralRun(run, w, e, flush) ==
  LET hdr   == run[1]
      count == 8 * (hdr \div 2)
      pay   == AppendedTo(1, run)
  IN  /\ hdr % 2 = 1
      /\ hdr <= 127
      /\ count >= 8
      /\ count <= 504
      /\ Len(pay) = w * (hdr \div 2)
      /\ \E pad \in 0..7 :
           /\ pad > 0 => (flush /\ e = Len(rin))
           /\ count - pad <= e
           /\ \A k \in 1..count :
                LiteralAt(pay, w, k) = IF k <= count - pad THEN rin[e - (count - pad) + k]
                                       ELSE 0

\* C22: every literal run that RleEncode emits is a single header byte
\* (count / 8) << 1 | 1, at most 0x7f, followed by count values, count a
\* multiple of 8 between 8 and 504; the values are those of the input, and
\* only when flush ends the stream inside a group is the last group filled
\* up to 8 values with zeros.
C22_LiteralRunShape ==
  [][EmitsLiteralRun =>
       IsLiteralRun(AppendedTo(Len(state_g.rle_out), state_g'.rle_out), nbits,
                    LiteralEnd(state_g'), state_g.flush)]_vars

\* a stream of 267 values without equal neighbours has been encoded: one
\* literal run of 34 groups, the last one padded with 5 zeros
C22_Witness ==
  /\ rpc = "done"
  /\ Len(rin) = 267
  /\ \A k \in 1..266 : rin[k] # rin[k + 1]
  /\ state_g.rle_out[1] = 69
  /\ Len(state_g.rle_out) = 1 + 34 * nbits

(***************************************************************************)
(* The reader of a hybrid RLE / bit-packed stream (Parquet format): a      *)
(* varint header; odd: (header >> 1) groups of 8 values bit-packed at      *)
(* width w, least significant bit first; even: (header >> 1) repetitions   *)
(* of one value stored in ceil(w / 8) little-endian bytes.                 *)
(***************************************************************************)
RECURSIVE VlqLen(_, _)
VlqLen(b, p) == IF p > Len(b) THEN 0 ELSE IF b[p] >= 128 THEN 1 + VlqLen(b, p + 1) ELSE 1

RECURSIVE VlqDecode(_, _, _)
VlqDecode(b, p, n) ==
  IF n = 0 THEN 0 ELSE (b[p] % 128) + 128 * VlqDecode(b, p + 1, n - 1)

RECURSIVE RleDecode(_, _, _)
RleDecode(b, p, w) ==
  IF p > Len(b) THEN <<>>
  ELSE LET hl  == VlqLen(b, p)
           hdr == VlqDecode(b, p, hl)
           q   == p + hl
       IN  IF hdr % 2 = 1
             THEN LET groups == hdr \div 2
                      pay == [k \in 0..(groups * w - 1) |-> b[q + k]]
                  IN  IF q + groups * w - 1 > Len(b) THEN <<-1>>
                      ELSE [i \in 1..(groups * 8) |->
                              SumSeq([j \in 1..w |->
                                        Bit(pay[((i - 1) * w + j - 1) \div 8],
                                            ((i - 1) * w + j - 1) % 8) * Pow2(j - 1)])]
                             \o RleDecode(b, q + groups * w, w)
             ELSE LET vb == (w + 7) \div 8
                  IN  IF q + vb - 1 > Len(b) THEN <<-1>>
                      ELSE [i \in 1..(hdr \div 2) |->
                              IF vb = 1 THEN b[q] ELSE b[q] + 256 * b[q + 1]]
                             \o RleDecode(b, q + vb, w)

\* C9: once the last batch has been encoded with flush, decoding the emitted
\* stream reproduces the input, followed only by the zero padding of the last
\* literal group (fewer than 8 values).
C9_RleRoundTrip ==
  rpc = "done" =>
    LET d == RleDecode(state_g.rle_out, 1, nbits)
    IN  /\ Len(d) >= Len(rin)
        /\ Len(d) < Len(rin) + 8
        /\ \A i \in 1..Len(d) : d[i] = (IF i <= Len(rin) THEN rin[i] ELSE 0)

\* a stretch without equal neighbours followed by a repeated run that spans
\* more than two batches has been encoded and flushed
C9_Witness ==
  /\ rpc = "done"
  /\ Len(rin) > 2 * block_size
  /\ state_g.rle_pos = Len(rin)
  /\ rin[1] # rin[2]
  /\ \A i \in (Len(rin) - 2 * block_size)..Len(rin) : rin[i] = rin[Len(rin)]
  /\ Len(state_g.rle_out) < Len(rin)

(***************************************************************************)
(* One column chunk of a flat column (no list ancestor, so no repetition   *)
(* levels and one value per row): gpuInitPageFragments, gpuInitPages,      *)
(* gpuEncodePages, the device compressor and gpuDecideCompression.         *)
(* Statistics are not requested (ck_g.stats is null).  Buffer addresses    *)
(* are offsets from the start of the chunk's uncompressed buffer.          *)
(***************************************************************************)
MaxChunkRows == 3
MaxFragmentSize == 2
FirstPage == 1

\* a leaf row is null or holds one of two values
LeafChoices(nullable) ==
  { [valid |-> TRUE, v |-> 0], [valid |-> TRUE, v |-> 1] }
    \cup (IF nullable THEN { [valid |-> FALSE, v |-> 0] } ELSE {})

\* element<int32_t>() of the INT32 leaf value v
LeafInt32(v) == IF v = 0 THEN 258 ELSE IF v = 1 THEN -2 ELSE v - 1

\* size_bytes() of the string held by value v of a BYTE_ARRAY column
StrBytes(v) == IF v = 0 THEN 131068 ELSE 262140

physical_type_len(physical_type) == 4

\* len of a leaf value as gpuInitPageFragments and gpuEncodePages compute it
ValueLen(i) ==
  IF At(col_desc.leaf, i).valid
    THEN physical_type_len(col_desc.physical_type)
           + (IF col_desc.physical_type = "BYTE_ARRAY"
                THEN StrBytes(At(col_desc.leaf, i).v) ELSE 0)
    ELSE 0

num_def_level_bits == IF col_desc.nullable THEN 1 ELSE 0

num_rep_level_bits == 0

\* the elements of the set S of numbers in increasing order
SortedSeq(S) ==
  [k \in 1..Cardinality(S) |-> CHOOSE x \in S : Cardinality({y \in S : y < x}) = k - 1]

\* dict_data: the leaf index of the first occurrence of every distinct value
DictData(leaf) ==
  SortedSeq({i \in 0..(Len(leaf) - 1) :
               /\ At(leaf, i).valid
               /\ \A j \in 0..(i - 1) : ~(At(leaf, j).valid /\ At(leaf, j).v = At(leaf, i).v)})

\* dict_index: for every valid leaf the position of its value in dict_data
DictIndex(leaf) ==
  [i \in 1..Len(leaf) |->
     IF leaf[i].valid
       THEN (CHOOSE k \in 1..Len(DictData(leaf)) :
               At(leaf, DictData(leaf)[k]).v = leaf[i].v) - 1
       ELSE 0]

\* pages[] before gpuInitPages has written an entry
NoPage ==
  [page_type |-> "NONE", num_fragments |-> 0, hdr_size |-> 0, max_hdr_size |-> 0,
   max_data_size |-> 0, start_row |-> 0, num_rows |-> 0, num_leaf_values |-> 0,
   num_values |-> 0, page_data |-> 0, comp_stat |-> -1]

\* comp_stats[] before gpuEncodePages has written an entry
NoStat == [bytes_written |-> 0, status |-> 0]

InitChunk ==
  /\ \E pt \in {"INT32", "BYTE_ARRAY"}, nullable \in BOOLEAN, n \in 1..MaxChunkRows :
       \E leaf \in [1..n -> LeafChoices(nullable)] :
         /\ col_desc = [physical_type |-> pt, nullable |-> nullable, leaf |-> leaf,
                        num_rows |-> n]
         /\ \E dict \in (IF DictData(leaf) # <<>> THEN BOOLEAN ELSE {FALSE}) :
              chunks = [start_row |-> 0, num_rows |-> n, num_values |-> n,
                        first_page |-> FirstPage, ck_stat_size |-> 0,
                        use_dictionary |-> dict,
                        dict_rle_bits |-> IF dict THEN 1 ELSE 0,
                        dict_data |-> IF dict THEN DictData(leaf) ELSE <<>>,
                        dict_index |-> IF dict THEN DictIndex(leaf) ELSE <<>>,
                        num_dict_entries |-> IF dict THEN Len(DictData(leaf)) ELSE 0,
                        uniq_data_size |->
                          IF dict
                            THEN SumSeq([k \in 1..Len(DictData(leaf)) |->
                                           physical_type_len(pt)
                                             + (IF pt = "BYTE_ARRAY"
                                                  THEN StrBytes(At(leaf, DictData(leaf)[k]).v)
                                                  ELSE 0)])
                            ELSE 0,
                        num_pages |-> 0, bfr_size |-> 0, page_headers_size |-> 0,
                        max_page_data_size |-> 0, is_compressed |-> FALSE,
                        compressed_size |-> 0]
         /\ pages = [k \in 1..(FirstPage + n + 2) |-> NoPage]
  /\ params \in [fragment_size : 1..MaxFragmentSize,
                 max_page_size_bytes : {8, 512 * 1024},
                 max_page_size_rows : {1, 20000},
                 compression : BOOLEAN,
                 stats : {"NONE"}]
  /\ comp_stats = IF params.compression THEN [k \in 1..Len(pages) |-> NoStat] ELSE <<>>
  /\ frag = <<>>
  /\ page_out = <<>>
  /\ hdr_out = <<>>
  /\ gather_out = <<>>
  /\ planner = <<>>
  /\ ppc = "fragments"
  /\ RleUnused
  /\ DremelUnused

\* the order in which the statistics compare two values of the column
StatsKey(v) == IF col_desc.physical_type = "BYTE_ARRAY" THEN v ELSE LeafInt32(v)

\* the statistics_chunk of the rows lo .. hi - 1 of the column: the number of
\* nulls, whether a valid value exists, and the least and greatest valid value
StatsOfRows(lo, hi) ==
  LET valid == {i \in lo..(hi - 1) : i < Len(col_desc.leaf) /\ At(col_desc.leaf, i).valid}
      vs == {At(col_desc.leaf, i).v : i \in valid}
  IN  [null_count |-> (hi - lo) - Cardinality(valid),
       has_minmax |-> valid # {},
       min_value |-> IF vs = {} THEN 0
                     ELSE CHOOSE v \in vs : \A w \in vs : StatsKey(v) <= StatsKey(w),
       max_value |-> IF vs = {} THEN 0
                     ELSE CHOOSE v \in vs : \A w \in vs : StatsKey(w) <= StatsKey(v)]

\* str_val.length of a string minimum or maximum (0 when there is none)
StatsStrLen(st, v) == IF st.has_minmax THEN StrBytes(v) ELSE 0

\* ck_g.stats[f]: the statistics of fragment f
FragmentStats(f) == StatsOfRows(At(frag, f).start_row, At(frag, f).start_row + At(frag, f).num_rows)

\* the PageFragment written by the thread block of fragment frag_y
gpuInitPageFragments(frag_y) ==
  LET start_row == frag_y * params.fragment_size
      num_rows == Min(params.fragment_size, col_desc.num_rows - start_row)
  IN  [start_row |-> start_row,
       num_rows |-> num_rows,
       num_dict_vals |-> 0,
       fragment_data_size |->
         SumSeq([i \in 1..num_rows |-> ValueLen(start_row + i - 1)]),
       dict_data_size |-> 0,
       start_value_idx |-> start_row,
       num_leaf_values |-> num_rows,
       num_values |-> num_rows]

\* the launch of gpuInitPageFragments: one thread block per fragment
InitPageFragments ==
  /\ ppc = "fragments"
  /\ frag' = [k \in 1..((col_desc.num_rows + params.fragment_size - 1)
                          \div params.fragment_size) |-> gpuInitPageFragments(k - 1)]
  /\ ppc' = "init_pages"
  /\ UNCHANGED <<params, col_desc, chunks, pages, page_out, comp_stats, planner, hdr_out, gather_out, dvars, rvars>>

\* gpuInitPages up to the do-loop: the locals and the dictionary page
InitPagesBegin ==
  /\ ppc = "init_pages"
  /\ LET page_g == [NoPage EXCEPT
                      !.page_data = chunks.ck_stat_size,
                      !.num_fragments = 0,
                      !.page_type = "DICTIONARY_PAGE",
                      !.hdr_size = 0,
                      !.max_hdr_size = 32,
                      !.max_data_size = chunks.uniq_data_size,
                      !.start_row = chunks.start_row,
                      !.num_rows = chunks.num_dict_entries,
                      !.num_leaf_values = chunks.num_dict_entries,
                      !.num_values = chunks.num_dict_entries]
         dict == chunks.use_dictionary
     IN  /\ pages' = IF dict /\ pages # <<>>
                       THEN [pages EXCEPT ![chunks.first_page + 1] = page_g]
                       ELSE pages
         /\ planner' =
              [fragments_in_chunk |-> 0, rows_in_page |-> 0, values_in_page |-> 0,
               leaf_values_in_page |-> 0, page_size |-> 0,
               num_pages |-> IF dict THEN 1 ELSE 0,
               num_rows |-> 0, page_start |-> 0,
               page_offset |-> chunks.ck_stat_size
                                 + (IF dict THEN 32 + chunks.uniq_data_size ELSE 0),
               num_dict_entries |-> 0,
               ck_max_stats_len |-> 0,
               max_stats_len |-> 0,
               page_headers_size |-> IF dict THEN 32 ELSE 0,
               max_page_data_size |-> IF dict THEN Max(0, chunks.uniq_data_size) ELSE 0,
               cur_row |-> chunks.start_row]
  /\ ppc' = "loop"
  /\ UNCHANGED <<params, col_desc, chunks, frag, page_out, comp_stats, hdr_out, gather_out, dvars, rvars>>

\* a ceiling with the thresholds one half (384 KiB) and two thirds (256 KiB)
this_max_page_size_half_two_thirds(values_in_page) ==
  Min(IF values_in_page * 3 >= chunks.num_values * 2 THEN 256 * 1024
      ELSE IF values_in_page * 2 >= chunks.num_values THEN 384 * 1024
      ELSE 512 * 1024,
      params.max_page_size_bytes)

\* the byte ceiling of the page that holds values_in_page values so far
this_max_page_size(values_in_page) ==
  Min(IF values_in_page * 2 >= chunks.num_values THEN 256 * 1024
      ELSE IF values_in_page * 3 >= chunks.num_values THEN 384 * 1024
      ELSE 512 * 1024,
      params.max_page_size_bytes)

\* the condition under which the page being filled is flushed
FlushPage(pl, frag_g, fragment_data_size) ==
  \/ pl.num_rows >= chunks.num_rows
  \/ /\ pl.values_in_page > 0
     /\ pl.page_size + fragment_data_size > this_max_page_size(pl.values_in_page)
  \/ pl.rows_in_page > params.max_page_size_rows

\* a reserve that leaves out the lengths of the string minimum and maximum
stats_hdr_len_fixed(max_stats_len) ==
  IF params.stats = "NONE" THEN 0 ELSE 16 + 5 * 3

\* the room reserved in a data page header for the page statistics
stats_hdr_len(max_stats_len) ==
  IF params.stats = "NONE" THEN 0
  ELSE 16 + (IF col_desc.physical_type = "BYTE_ARRAY" THEN 5 * 3 + 2 * max_stats_len
             ELSE 5 * 3)

\* reserved size of a level stream of num_values values
LevelSize(bits, num_values) ==
  IF bits # 0 THEN 4 + 5 + ((bits * num_values + 7) \div 8) + (num_values \div 256) ELSE 0

\* a flush that advances the buffer offset by the data size only
NextPageWithoutHeaderRoom(pl, page_g) ==
  [pl EXCEPT
     !.page_offset = @ + page_g.max_data_size,
     !.page_headers_size = @ + page_g.max_hdr_size,
     !.max_page_data_size = Max(@, page_g.max_data_size),
     !.cur_row = @ + pl.rows_in_page,
     !.num_pages = @ + 1,
     !.page_size = 0,
     !.rows_in_page = 0,
     !.values_in_page = 0,
     !.leaf_values_in_page = 0,
     !.page_start = pl.fragments_in_chunk]

\* a reset of the accumulators that keeps the row count of the flushed page
NextPageKeepsRows(pl, page_g) ==
  [pl EXCEPT
     !.page_offset = @ + page_g.max_hdr_size + page_g.max_data_size,
     !.page_headers_size = @ + page_g.max_hdr_size,
     !.max_page_data_size = Max(@, page_g.max_data_size),
     !.cur_row = @ + pl.rows_in_page,
     !.num_pages = @ + 1,
     !.page_size = 0,
     !.values_in_page = 0,
     !.leaf_values_in_page = 0,
     !.page_start = pl.fragments_in_chunk]

\* the locals after page_g has been flushed
NextPage(pl, page_g) ==
  [pl EXCEPT
     !.page_offset = @ + page_g.max_hdr_size + page_g.max_data_size,
     !.page_headers_size = @ + page_g.max_hdr_size,
     !.max_page_data_size = Max(@, page_g.max_data_size),
     !.cur_row = @ + pl.rows_in_page,
     !.ck_max_stats_len = Max(@, pl.max_stats_len),
     !.max_stats_len = 0,
     !.num_pages = @ + 1,
     !.page_size = 0,
     !.rows_in_page = 0,
     !.values_in_page = 0,
     !.leaf_values_in_page = 0,
     !.page_start = pl.fragments_in_chunk]

\* a slot computation that does not skip the dictionary page
PageSlotIgnoringDictionary(pl) ==
  chunks.first_page + pl.num_pages - (IF chunks.use_dictionary THEN 1 ELSE 0)

\* index in pages[] of the data page that is flushed
PageSlot(pl) == chunks.first_page + pl.num_pages

\* one iteration of the do-loop of gpuInitPages: the new locals, the pages
\* array and frag_g.num_rows, on which the loop condition depends
InitPagesIteration(pl) ==
  LET frag_g == IF pl.num_rows < chunks.num_rows
                  THEN At(frag, pl.fragments_in_chunk)
                  ELSE [At(frag, pl.fragments_in_chunk - 1) EXCEPT
                          !.fragment_data_size = 0, !.num_rows = 0]
      fragment_data_size == IF chunks.use_dictionary THEN frag_g.num_leaf_values * 2
                            ELSE frag_g.fragment_data_size
      flush_page == FlushPage(pl, frag_g, fragment_data_size)
      minmax_len == IF pl.num_rows < chunks.num_rows /\ params.stats # "NONE"
                         /\ col_desc.physical_type = "BYTE_ARRAY"
                      THEN LET st == FragmentStats(pl.fragments_in_chunk)
                           IN  Max(StatsStrLen(st, st.min_value), StatsStrLen(st, st.max_value))
                      ELSE 0
      page_size == IF chunks.use_dictionary
                     THEN 1 + 5 + ((pl.values_in_page * chunks.dict_rle_bits + 7) \div 8)
                            + (pl.values_in_page \div 256)
                     ELSE pl.page_size
      page_g == [page_type |-> "DATA_PAGE",
                 num_fragments |-> pl.fragments_in_chunk - pl.page_start,
                 hdr_size |-> 0,
                 max_hdr_size |-> 32 + stats_hdr_len(pl.max_stats_len),
                 max_data_size |-> page_size
                                     + LevelSize(num_def_level_bits, pl.values_in_page)
                                     + LevelSize(num_rep_level_bits, pl.values_in_page),
                 start_row |-> pl.cur_row,
                 num_rows |-> pl.rows_in_page,
                 num_leaf_values |-> pl.leaf_values_in_page,
                 num_values |-> pl.values_in_page,
                 page_data |-> pl.page_offset,
                 comp_stat |-> -1]
      flushed == IF flush_page THEN NextPage(pl, page_g) ELSE pl
  IN  [planner |-> [flushed EXCEPT
                      !.max_stats_len = Max(@, minmax_len),
                      !.num_dict_entries = @ + frag_g.num_dict_vals,
                      !.page_size = @ + fragment_data_size,
                      !.rows_in_page = @ + frag_g.num_rows,
                      !.values_in_page = @ + frag_g.num_values,
                      !.leaf_values_in_page = @ + frag_g.num_leaf_values,
                      !.num_rows = @ + frag_g.num_rows,
                      !.fragments_in_chunk = @ + 1],
       pages |-> IF flush_page /\ pages # <<>>
                   THEN [pages EXCEPT ![PageSlot(pl) + 1] = page_g]
                   ELSE pages,
       frag_num_rows |-> frag_g.num_rows]

\* one pass through the body of the do-loop
InitPagesIter ==
  /\ ppc = "loop"
  /\ \E r \in {InitPagesIteration(planner)} :
       /\ planner' = r.planner
       /\ pages' = r.pages
       /\ ppc' = IF r.frag_num_rows # 0 THEN "loop" ELSE "loop_done"
  /\ UNCHANGED <<params, col_desc, chunks, frag, page_out, comp_stats, hdr_out, gather_out, dvars, rvars>>

\* after the loop: the chunk is written back
InitPagesEnd ==
  /\ ppc = "loop_done"
  /\ LET ck_stat_size == IF chunks.ck_stat_size = 0 /\ params.stats # "NONE"
                           THEN 48 + 2 * planner.ck_max_stats_len ELSE 0
     IN  chunks' = [chunks EXCEPT
                      !.ck_stat_size = @ + ck_stat_size,
                      !.num_pages = planner.num_pages,
                      !.bfr_size = planner.page_offset + ck_stat_size,
                      !.page_headers_size = planner.page_headers_size,
                      !.max_page_data_size = planner.max_page_data_size]
  /\ ppc' = IF pages = <<>> THEN "sized" ELSE "encode"
  /\ UNCHANGED <<params, col_desc, frag, pages, page_out, comp_stats, planner, hdr_out, gather_out, dvars, rvars>>

\* four bytes of x, most significant byte first
Bytes4BigEndian(x) == [k \in 1..4 |-> (x \div Pow2(8 * (4 - k))) % 256]

\* the four little-endian bytes dst[0] = v, dst[1] = v >> 8, ... of x
Bytes4(x) == [k \in 1..4 |-> (x \div Pow2(8 * (k - 1))) % 256]

\* the bytes of a string are copied by one memcpy: the block of the
\* size_bytes() bytes of string v is kept as the single stream element 256 + v
StrBlock(v) == 256 + v

\* non-dictionary encoding of the valid leaf value at index val_idx
PlainValue(val_idx) ==
  LET v == At(col_desc.leaf, val_idx).v
  IN  IF col_desc.physical_type = "BYTE_ARRAY"
        THEN Bytes4(ValueLen(val_idx) - 4) \o <<StrBlock(v)>>
        ELSE Bytes4(LeafInt32(v))

\* the PLAIN values that the value loop of gpuEncodePages writes for the leaf
\* indices idx, in order
RECURSIVE EncodePlainValues(_)
EncodePlainValues(idx) ==
  IF Len(idx) = 0 THEN <<>>
  ELSE IF Len(idx) = 1
    THEN (IF idx[1] < Len(col_desc.leaf) /\ ValueLen(idx[1]) # 0
            THEN PlainValue(idx[1]) ELSE <<>>)
  ELSE EncodePlainValues(SubSeq(idx, 1, Len(idx) \div 2))
         \o EncodePlainValues(SubSeq(idx, Len(idx) \div 2 + 1, Len(idx)))

\* a variant that reports every row as valid
DefLevelIgnoringValidity(row) == 1

\* the definition level of a row of a flat nullable column
DefLevel(row) == IF At(col_desc.leaf, row).valid THEN 1 ELSE 0

\* the level loop of gpuEncodePages over the levels lvl of a page
RECURSIVE EncodeLevels(_, _, _)
EncodeLevels(st, lvl, w) ==
  IF st.rle_numvals < Len(lvl)
    THEN LET nvals == Min(Len(lvl) - st.rle_numvals, block_size)
         IN  EncodeLevels(RleEncode([st EXCEPT !.vals = StageLevels(st, lvl)],
                                    st.rle_numvals + nvals, w,
                                    st.rle_numvals + nvals = Len(lvl)),
                          lvl, w)
    ELSE st

\* the value loop of gpuEncodePages on a dictionary-encoded data page: the
\* dictionary indices of the valid leaves of every batch are staged and encoded
RECURSIVE EncodeDictValues(_, _, _, _)
EncodeDictValues(st, page, cur_val_idx, w) ==
  IF cur_val_idx < page.num_leaf_values
    THEN LET nvals == Min(page.num_leaf_values - cur_val_idx, block_size)
             page_start_val == page.start_row
             chunk_start_val == chunks.start_row
             is_valid(i) == i < Len(col_desc.leaf) /\ At(col_desc.leaf, i).valid
             idx == SelectSeq(Counting(page_start_val + cur_val_idx,
                                       page_start_val + cur_val_idx + nvals), is_valid)
             staged == [p \in 0..(rle_buffer_size - 1) |->
                          LET t == (p - st.rle_numvals) % rle_buffer_size
                          IN  IF t < Len(idx)
                                THEN At(chunks.dict_index, idx[t + 1] - chunk_start_val)
                                ELSE st.vals[p]]
         IN  EncodeDictValues(RleEncode([st EXCEPT !.vals = staged],
                                        st.rle_numvals + Len(idx), w,
                                        cur_val_idx + nvals = page.num_leaf_values),
                              page, cur_val_idx + nvals, w)
    ELSE st

\* what the thread block of one page writes behind the page header: the
\* definition-level stream, the dictionary-index stream, the PLAIN values and
\* the number of bytes they take
gpuEncodePages(page) ==
  LET is_dict_page == page.page_type = "DICTIONARY_PAGE"
      has_levels == ~is_dict_page /\ num_def_level_bits # 0 /\ num_rep_level_bits = 0
      lvl == [i \in 1..page.num_rows |->
                IF page.start_row + i - 1 < col_desc.num_rows
                  THEN DefLevel(page.start_row + i - 1) ELSE 0]
      s1 == IF has_levels THEN EncodeLevels(RleReset, lvl, num_def_level_bits) ELSE RleReset
      levels == IF has_levels THEN Bytes4(Len(s1.rle_out)) \o s1.rle_out ELSE <<>>
      dict_bits == IF chunks.use_dictionary /\ ~is_dict_page THEN chunks.dict_rle_bits
                   ELSE -1
      s2 == IF dict_bits > 0
              THEN EncodeDictValues([s1 EXCEPT !.rle_run = 0, !.rle_pos = 0,
                                               !.rle_numvals = 0, !.rle_out = <<dict_bits>>,
                                               !.lit_bytes = <<>>],
                                    page, 0, dict_bits)
              ELSE s1
      len(k) == IF is_dict_page THEN ValueLen(At(chunks.dict_data, k))
                ELSE IF page.start_row + k < Len(col_desc.leaf)
                  THEN ValueLen(page.start_row + k) ELSE 0
      val_idx(k) == IF is_dict_page THEN At(chunks.dict_data, k) ELSE page.start_row + k
  IN  [levels |-> levels,
       values |-> IF dict_bits >= 0 /\ page.num_leaf_values > 0
                    THEN (IF dict_bits > 0 THEN s2.rle_out ELSE <<dict_bits>>)
                    ELSE <<>>,
       plain |-> IF dict_bits >= 0 THEN <<>>
                 ELSE EncodePlainValues([k \in 1..page.num_leaf_values |-> val_idx(k - 1)]),
       plain_size |-> IF dict_bits >= 0 THEN 0
                      ELSE SumSeq([k \in 1..page.num_leaf_values |-> len(k - 1)])]

\* the thread block of the next page of the chunk: the page is encoded, its
\* max_data_size becomes the size written and its compression status is reset
\* to {0, ~0u} (the status word is kept as the signed reading -1 of ~0u)
EncodePages ==
  /\ ppc = "encode"
  /\ LET p == chunks.first_page + Len(page_out)
         out == gpuEncodePages(At(pages, p))
         actual_data_size == Len(out.levels) + Len(out.values) + out.plain_size
     IN  /\ page_out' = Append(page_out, out)
         /\ pages' = [pages EXCEPT
                        ![p + 1].max_data_size = actual_data_size,
                        ![p + 1].comp_stat = IF comp_stats # <<>> THEN p ELSE @]
         /\ comp_stats' = IF comp_stats # <<>>
                            THEN [comp_stats EXCEPT
                                    ![p + 1] = [bytes_written |-> 0, status |-> -1]]
                            ELSE comp_stats
         /\ ppc' = IF Len(page_out) + 1 < chunks.num_pages THEN "encode"
                   ELSE IF comp_stats # <<>> THEN "compress" ELSE "decide"
  /\ UNCHANGED <<params, col_desc, chunks, frag, planner, hdr_out, gather_out, dvars, rvars>>

\* the page indices of the chunk in pages[]
ChunkPages == {chunks.first_page + i : i \in 0..(chunks.num_pages - 1)}

\* the device compressor has run on every page: it wrote fewer bytes than the
\* page holds, as many, or failed
Compress ==
  /\ ppc = "compress"
  /\ \E result \in [ChunkPages -> {"smaller", "same", "failed"}] :
       comp_stats' =
         [k \in 1..Len(comp_stats) |->
            IF k - 1 \in ChunkPages
              THEN [bytes_written |->
                      IF result[k - 1] = "smaller" THEN pages[k].max_data_size - 1
                      ELSE IF result[k - 1] = "same" THEN pages[k].max_data_size
                      ELSE 0,
                    status |-> IF result[k - 1] = "failed" THEN 1 ELSE 0]
              ELSE comp_stats[k]]
  /\ ppc' = "decide"
  /\ UNCHANGED <<params, col_desc, chunks, frag, pages, page_out, planner, hdr_out, gather_out, dvars, rvars>>

\* a decision that also takes a result of the same size as compressed
gpuDecideCompressionNotLarger ==
  LET ck_pages == [i \in 1..chunks.num_pages |-> At(pages, chunks.first_page + i - 1)]
      with_stat == {i \in 1..chunks.num_pages : ck_pages[i].comp_stat # -1}
      uncompressed_data_size ==
        SumSeq([i \in 1..chunks.num_pages |-> ck_pages[i].max_data_size])
      compressed_data_size ==
        SumSeq([i \in 1..chunks.num_pages |->
                  IF i \in with_stat THEN At(comp_stats, ck_pages[i].comp_stat).bytes_written
                  ELSE 0])
      error_count ==
        Cardinality({i \in with_stat : At(comp_stats, ck_pages[i].comp_stat).status # 0})
      is_compressed ==
        with_stat # {} /\ error_count = 0 /\ compressed_data_size <= uncompressed_data_size
  IN  [chunks EXCEPT
         !.is_compressed = is_compressed,
         !.bfr_size = uncompressed_data_size,
         !.compressed_size = IF is_compressed THEN compressed_data_size
                             ELSE uncompressed_data_size]

\* the chunk as gpuDecideCompression leaves it (the sums stay far below 2^32)
gpuDecideCompression ==
  LET ck_pages == [i \in 1..chunks.num_pages |-> At(pages, chunks.first_page + i - 1)]
      with_stat == {i \in 1..chunks.num_pages : ck_pages[i].comp_stat # -1}
      has_compression == with_stat # {}
      uncompressed_data_size ==
        SumSeq([i \in 1..chunks.num_pages |-> ck_pages[i].max_data_size])
      compressed_data_size ==
        SumSeq([i \in 1..chunks.num_pages |->
                  IF i \in with_stat THEN At(comp_stats, ck_pages[i].comp_stat).bytes_written
                  ELSE 0])
      error_count ==
        Cardinality({i \in with_stat : At(comp_stats, ck_pages[i].comp_stat).status # 0})
      is_compressed ==
        IF has_compression
          THEN error_count = 0 /\ compressed_data_size < uncompressed_data_size
          ELSE FALSE
  IN  [chunks EXCEPT
         !.is_compressed = is_compressed,
         !.bfr_size = uncompressed_data_size,
         !.compressed_size = IF is_compressed THEN compressed_data_size
                             ELSE uncompressed_data_size]

DecideCompression ==
  /\ ppc = "decide"
  /\ chunks' = gpuDecideCompression
  /\ ppc' = "done"
  /\ UNCHANGED <<params, col_desc, frag, pages, page_out, comp_stats, planner, hdr_out, gather_out, dvars, rvars>>

NextPages ==
  \/ InitPageFragments
  \/ InitPagesBegin
  \/ InitPagesIter
  \/ InitPagesEnd
  \/ EncodePages
  \/ Compress
  \/ DecideCompression

SpecPages == InitChunk /\ [][NextPages]_vars

(***************************************************************************)
(* The Thrift compact protocol writer of the page headers.  A header under *)
(* construction is the record of the bytes written so far (out), their     *)
(* number (len) and current_field_index; the bytes of a string are kept as *)
(* one block element (StrBlock) that counts with its length.               *)
(***************************************************************************)
ST_FLD_I32 == 5
ST_FLD_I64 == 6
ST_FLD_BINARY == 8
ST_FLD_STRUCT == 12

\* the values of PageType and Encoding that go into a header
PageTypeValue(page_type) == IF page_type = "DATA_PAGE" THEN 0 ELSE 2
EncodingValue(encoding) ==
  IF encoding = "PLAIN" THEN 0 ELSE IF encoding = "PLAIN_DICTIONARY" THEN 2 ELSE 3

\* 7 bits per byte, least significant group first, 0x80 on all but the last
RECURSIVE cpw_put_uint32(_)
cpw_put_uint32(v) ==
  IF v > 127 THEN <<(v % 128) + 128>> \o cpw_put_uint32(v \div 128) ELSE <<v>>

RECURSIVE cpw_put_uint64(_)
cpw_put_uint64(v) ==
  IF v > 127 THEN <<(v % 128) + 128>> \o cpw_put_uint64(v \div 128) ELSE <<v>>

\* zigzag: (v ^ -s) * 2 + s with s = (v < 0); the values stay below 2^30
cpw_put_int32(v) == cpw_put_uint32(IF v < 0 THEN (-v - 1) * 2 + 1 ELSE v * 2)

cpw_put_int64(v) == cpw_put_uint64(IF v < 0 THEN (-v - 1) * 2 + 1 ELSE v * 2)

\* a variant that always writes the one-byte form
cpw_put_fldh_always_delta(f, cur, t) == <<((f - cur) % 16) * 16 + t>>

\* a field header: the delta to the previous field id and the type in one
\* byte, or the type followed by the field id
cpw_put_fldh(f, cur, t) ==
  IF f > cur /\ f <= cur + 15 THEN <<(f - cur) * 16 + t>>
  ELSE <<t>> \o cpw_put_int32(f)

\* header_encoder(header_start)
header_encoder == [out |-> <<>>, len |-> 0, current_field_index |-> 0]

\* the encoder after the bytes b have been stored at current_header_ptr
PutBytes(enc, b) == [enc EXCEPT !.out = @ \o b, !.len = @ + Len(b)]

field_struct_begin(enc, field) ==
  [PutBytes(enc, cpw_put_fldh(field, enc.current_field_index, ST_FLD_STRUCT))
     EXCEPT !.current_field_index = 0]

field_struct_end(enc, field) ==
  [PutBytes(enc, <<0>>) EXCEPT !.current_field_index = field]

field_int32(enc, field, value) ==
  [PutBytes(enc, cpw_put_fldh(field, enc.current_field_index, ST_FLD_I32)
                   \o cpw_put_int32(value))
     EXCEPT !.current_field_index = field]

field_int64(enc, field, value) ==
  [PutBytes(enc, cpw_put_fldh(field, enc.current_field_index, ST_FLD_I64)
                   \o cpw_put_int64(value))
     EXCEPT !.current_field_index = field]

\* value holds the length bytes that memcpy copies (a string as one block)
field_binary(enc, field, value, length) ==
  LET h == PutBytes(enc, cpw_put_fldh(field, enc.current_field_index, ST_FLD_BINARY)
                           \o cpw_put_uint32(length))
  IN  [h EXCEPT !.out = @ \o value, !.len = @ + length, !.current_field_index = field]

\* end(&header_end, termination_flag)
encoder_end(enc, termination_flag) ==
  IF termination_flag = FALSE THEN PutBytes(enc, <<0>>) ELSE enc

\* what a second encoder wrote is appended at get_ptr() (set_ptr)
set_ptr(enc, written) == [enc EXCEPT !.out = @ \o written.out, !.len = @ + written.len]

\* the bytes at a minimum or maximum and their number
StatsValue(v) ==
  IF col_desc.physical_type = "BYTE_ARRAY"
    THEN [bytes |-> <<StrBlock(v)>>, len |-> StrBytes(v)]
    ELSE [bytes |-> Bytes4(LeafInt32(v)), len |-> 4]

\* EncodeStatistics: what it writes from start on
EncodeStatistics(s) ==
  LET e1 == field_int64(header_encoder, 3, s.null_count)
      vmax == StatsValue(s.max_value)
      vmin == StatsValue(s.min_value)
      e2 == IF s.has_minmax
              THEN field_binary(field_binary(e1, 5, vmax.bytes, vmax.len),
                                6, vmin.bytes, vmin.len)
              ELSE e1
  IN  encoder_end(e2, TRUE)

\* page_stats[blockIdx.x] and chunk_stats[chunk_id]
PageStats(page_g) == StatsOfRows(page_g.start_row, page_g.start_row + page_g.num_rows)
ChunkStats == StatsOfRows(chunks.start_row, chunks.start_row + chunks.num_rows)

\* the header of a data page between the begin and the end of field 5
DataPageHeader(enc, page_g, encoding) ==
  LET e1 == field_int32(field_struct_begin(enc, 5), 1, page_g.num_values)
      e2 == field_int32(e1, 2, EncodingValue(encoding))
      e3 == field_int32(e2, 3, EncodingValue("RLE"))
      e4 == field_int32(e3, 4, EncodingValue("RLE"))
      e5 == IF params.stats = "PAGE"
              THEN field_struct_end(set_ptr(field_struct_begin(e4, 5),
                                            EncodeStatistics(PageStats(page_g))), 5)
              ELSE e4
  IN  field_struct_end(e5, 5)

DictionaryPageHeader(enc, encoding) ==
  field_struct_end(
    field_int32(field_int32(field_struct_begin(enc, 7), 1, chunks.num_dict_entries),
                2, EncodingValue(encoding)), 7)

\* a variant that states the uncompressed size in both size fields
gpuEncodePageHeadersOneSize(p) ==
  LET page_g == At(pages, p)
      uncompressed_page_size == page_g.max_data_size
      compressed_page_size == IF chunks.is_compressed THEN At(comp_stats, p).bytes_written
                              ELSE uncompressed_page_size
      encoding == IF page_g.page_type = "DICTIONARY_PAGE" \/ chunks.use_dictionary
                    THEN "PLAIN_DICTIONARY" ELSE "PLAIN"
      e1 == field_int32(header_encoder, 1, PageTypeValue(page_g.page_type))
      e2 == field_int32(e1, 2, uncompressed_page_size)
      e3 == field_int32(e2, 3, uncompressed_page_size)
      e4 == IF page_g.page_type = "DATA_PAGE" THEN DataPageHeader(e3, page_g, encoding)
            ELSE DictionaryPageHeader(e3, encoding)
      hdr == encoder_end(e4, FALSE)
  IN  [page |-> [page_g EXCEPT !.max_data_size = compressed_page_size,
                               !.hdr_size = hdr.len],
       hdr |-> [out |-> hdr.out, len |-> hdr.len,
                current_field_index |-> hdr.current_field_index,
                ck_g_ck_stat_size |-> chunks.ck_stat_size],
       first |-> params.stats # "NONE" /\ p = chunks.first_page]

\* thread 0 of the block of page p: the page written back to pages[p], the
\* header stored at hdr_start, the ck_stat_size that the block's copy ck_g of
\* the chunk holds, and whether the block is the one that writes the chunk
\* statistics (first page of a chunk with statistics)
gpuEncodePageHeaders(p) ==
  LET page_g == At(pages, p)
      uncompressed_page_size == page_g.max_data_size
      compressed_page_size == IF chunks.is_compressed THEN At(comp_stats, p).bytes_written
                              ELSE uncompressed_page_size
      encoding == IF page_g.page_type = "DICTIONARY_PAGE" \/ chunks.use_dictionary
                    THEN "PLAIN_DICTIONARY" ELSE "PLAIN"
      e1 == field_int32(header_encoder, 1, PageTypeValue(page_g.page_type))
      e2 == field_int32(e1, 2, uncompressed_page_size)
      e3 == field_int32(e2, 3, compressed_page_size)
      e4 == IF page_g.page_type = "DATA_PAGE" THEN DataPageHeader(e3, page_g, encoding)
            ELSE DictionaryPageHeader(e3, encoding)
      hdr == encoder_end(e4, FALSE)
  IN  [page |-> [page_g EXCEPT !.max_data_size = compressed_page_size,
                               !.hdr_size = hdr.len],
       hdr |-> [out |-> hdr.out, len |-> hdr.len,
                current_field_index |-> hdr.current_field_index,
                ck_g_ck_stat_size |-> chunks.ck_stat_size],
       first |-> params.stats # "NONE" /\ p = chunks.first_page]

\* one thread block of gpuEncodePageHeaders; the blocks run in any order
EncodePageHeaders ==
  /\ ppc = "done"
  /\ \E i \in (1..chunks.num_pages) \ DOMAIN hdr_out :
       LET r == gpuEncodePageHeaders(chunks.first_page + i - 1)
           ck == EncodeStatistics(ChunkStats)
       IN  /\ pages' = [pages EXCEPT ![chunks.first_page + i] = r.page]
           /\ hdr_out' = [k \in DOMAIN hdr_out \cup {i} \cup (IF r.first THEN {0} ELSE {}) |->
                            IF k = i THEN r.hdr ELSE IF k = 0 /\ r.first THEN ck ELSE hdr_out[k]]
           /\ chunks' = IF r.first THEN [chunks EXCEPT !.ck_stat_size = ck.len] ELSE chunks
  /\ UNCHANGED <<params, col_desc, frag, page_out, comp_stats, planner, ppc, gather_out,
                 dvars, rvars>>

\* a copy loop that steps over the reserved header room in the destination
RECURSIVE GatherLoopKeepingHeaderRoom(_, _, _)
GatherLoopKeepingHeaderRoom(page, dst, g) ==
  IF page >= chunks.num_pages THEN [g EXCEPT !.dst = dst]
  ELSE LET page_g == At(pages, chunks.first_page + page)
           hdr_len == page_g.hdr_size
           data_len == page_g.max_data_size
       IN  GatherLoopKeepingHeaderRoom(page + 1, dst + page_g.max_hdr_size + data_len,
             [g EXCEPT
                !.segs = Append(@, [page |-> page, hdr_dst |-> dst, hdr_len |-> hdr_len,
                                    data_dst |-> dst + page_g.max_hdr_size,
                                    data_len |-> data_len,
                                    src |-> IF chunks.is_compressed THEN "compressed_data"
                                            ELSE "page_data"]),
                !.uncompressed_size = @ + hdr_len,
                !.dictionary_size = IF page = 0 /\ chunks.use_dictionary
                                      THEN hdr_len + data_len ELSE @])

\* the page loop of gpuGatherPages from page on, dst being the next free
\* offset of the destination: the copies made, uncompressed_size,
\* dictionary_size and the final dst
RECURSIVE GatherLoop(_, _, _)
GatherLoop(page, dst, g) ==
  IF page >= chunks.num_pages THEN [g EXCEPT !.dst = dst]
  ELSE LET page_g == At(pages, chunks.first_page + page)
           hdr_len == page_g.hdr_size
           data_len == page_g.max_data_size
       IN  GatherLoop(page + 1, dst + hdr_len + data_len,
             [g EXCEPT
                !.segs = Append(@, [page |-> page, hdr_dst |-> dst, hdr_len |-> hdr_len,
                                    data_dst |-> dst + hdr_len, data_len |-> data_len,
                                    src |-> IF chunks.is_compressed THEN "compressed_data"
                                            ELSE "page_data"]),
                !.uncompressed_size = @ + hdr_len,
                !.dictionary_size = IF page = 0 /\ chunks.use_dictionary
                                      THEN hdr_len + data_len ELSE @])

\* the thread block of the chunk in gpuGatherPages
gpuGatherPages ==
  GatherLoop(0, chunks.ck_stat_size,
             [segs |-> <<>>, dst_base |-> chunks.ck_stat_size, dst |-> chunks.ck_stat_size,
              uncompressed_size |-> chunks.bfr_size, dictionary_size |-> 0])

GatherPages ==
  /\ ppc = "done"
  /\ \A i \in 1..chunks.num_pages : i \in DOMAIN hdr_out
  /\ gather_out' = gpuGatherPages
  /\ chunks' = [chunks EXCEPT
                  !.bfr_size = gpuGatherPages.uncompressed_size,
                  !.compressed_size = gpuGatherPages.dst - gpuGatherPages.dst_base]
  /\ ppc' = "written"
  /\ UNCHANGED <<params, col_desc, frag, pages, page_out, comp_stats, planner, hdr_out,
                 dvars, rvars>>

\* the host has read the sizes of the first call of InitEncoderPages (made
\* with an empty pages span), allocates pages[] and calls it again
InitEncoderPages ==
  /\ ppc = "sized"
  /\ pages' = [k \in 1..(chunks.first_page + col_desc.num_rows + 2) |-> NoPage]
  /\ ppc' = "init_pages"
  /\ UNCHANGED <<params, col_desc, chunks, frag, page_out, comp_stats, planner, hdr_out,
                 gather_out, dvars, rvars>>

(***************************************************************************)
(* One chunk through all kernels of the writer, with or without            *)
(* statistics.                                                             *)
(***************************************************************************)
MaxWriteRows == 2

InitWrite ==
  /\ \E pt \in {"INT32", "BYTE_ARRAY"}, nullable \in BOOLEAN, n \in 1..MaxWriteRows :
       \E leaf \in [1..n -> LeafChoices(nullable)] :
         /\ col_desc = [physical_type |-> pt, nullable |-> nullable, leaf |-> leaf,
                        num_rows |-> n]
         /\ \E dict \in (IF DictData(leaf) # <<>> THEN BOOLEAN ELSE {FALSE}) :
              chunks = [start_row |-> 0, num_rows |-> n, num_values |-> n,
                        first_page |-> FirstPage, ck_stat_size |-> 0,
                        use_dictionary |-> dict,
                        dict_rle_bits |-> IF dict THEN 1 ELSE 0,
                        dict_data |-> IF dict THEN DictData(leaf) ELSE <<>>,
                        dict_index |-> IF dict THEN DictIndex(leaf) ELSE <<>>,
                        num_dict_entries |-> IF dict THEN Len(DictData(leaf)) ELSE 0,
                        uniq_data_size |->
                          IF dict
                            THEN SumSeq([k \in 1..Len(DictData(leaf)) |->
                                           physical_type_len(pt)
                                             + (IF pt = "BYTE_ARRAY"
                                                  THEN StrBytes(At(leaf, DictData(leaf)[k]).v)
                                                  ELSE 0)])
                            ELSE 0,
                        num_pages |-> 0, bfr_size |-> 0, page_headers_size |-> 0,
                        max_page_data_size |-> 0, is_compressed |-> FALSE,
                        compressed_size |-> 0]
         /\ \E compression \in BOOLEAN :
              comp_stats = IF compression THEN [k \in 1..(FirstPage + n + 2) |-> NoStat]
                           ELSE <<>>
  /\ params \in [fragment_size : 1..MaxFragmentSize,
                 max_page_size_bytes : {512 * 1024},
                 max_page_size_rows : {1, 20000},
                 compression : {comp_stats # <<>>},
                 stats : {"NONE", "ROWGROUP", "PAGE"}]
  /\ pages = <<>>
  /\ frag = <<>>
  /\ page_out = <<>>
  /\ hdr_out = <<>>
  /\ gather_out = <<>>
  /\ planner = <<>>
  /\ ppc = "fragments"
  /\ RleUnused
  /\ DremelUnused

NextWrite ==
  \/ NextPages
  \/ InitEncoderPages
  \/ EncodePageHeaders
  \/ GatherPages

SpecWrite == InitWrite /\ [][NextWrite]_vars

\* gpuInitPages has returned
Planned == ppc \in {"encode", "compress", "decide", "done"}

\* gpuEncodePages has run on every page of the chunk
Encoded == ppc \in {"compress", "decide", "done"}

\* the pages pages[first_page .. first_page + num_pages) of the chunk
PagesOfChunk == [i \in 1..chunks.num_pages |-> At(pages, chunks.first_page + i - 1)]

\* C5 as stated: after gpuInitPages the num_rows of all pages of the chunk
\* (pages[first_page .. first_page + num_pages)) sum to the chunk's num_rows.
C5_AllPageRowsSumToChunkRows ==
  Planned =>
    SumSeq([i \in 1..chunks.num_pages |-> PagesOfChunk[i].num_rows]) = chunks.num_rows

\* C5 amended: after gpuInitPages the num_rows of the data pages of the chunk
\* sum to the chunk's num_rows; the dictionary page, if there is one, carries
\* the number of dictionary entries in num_rows.
C5_DataPageRowsSumToChunkRows ==
  Planned =>
    /\ SumSeq([i \in 1..chunks.num_pages |->
                 IF PagesOfChunk[i].page_type = "DATA_PAGE"
                   THEN PagesOfChunk[i].num_rows ELSE 0]) = chunks.num_rows
    /\ \A i \in 1..chunks.num_pages :
         PagesOfChunk[i].page_type # "DATA_PAGE" =>
           PagesOfChunk[i].num_rows = chunks.num_dict_entries

\* a chunk with a dictionary page and rows spread over several data pages
C5_Witness ==
  /\ ppc = "encode"
  /\ page_out = <<>>
  /\ chunks.use_dictionary
  /\ chunks.num_pages >= 3
  /\ chunks.num_dict_entries >= 1
  /\ PagesOfChunk[2].num_rows < chunks.num_rows

\* C6: no data page's encoded size (the bytes gpuEncodePages wrote behind the
\* header) exceeds max_page_size_bytes, except for a page that consists of a
\* single fragment.
C6_PageBytesWithinLimit ==
  Encoded =>
    \A i \in 1..chunks.num_pages :
      PagesOfChunk[i].page_type = "DATA_PAGE" =>
        \/ PagesOfChunk[i].max_data_size <= params.max_page_size_bytes
        \/ PagesOfChunk[i].num_fragments = 1

\* C7: every data page holds at most max_page_size_rows rows (a page of one
\* fragment, which cannot be split, is left aside).
C7_PageRowsWithinLimit ==
  Planned =>
    \A i \in 1..chunks.num_pages :
      PagesOfChunk[i].page_type = "DATA_PAGE" =>
        \/ PagesOfChunk[i].num_rows <= params.max_page_size_rows
        \/ PagesOfChunk[i].num_fragments = 1

\* C8: with use_dictionary the page at first_page is the DICTIONARY_PAGE and
\* every later page of the chunk is a DATA_PAGE; without it every page of the
\* chunk is a DATA_PAGE.
C8_DictionaryPageFirst ==
  Planned =>
    \A i \in 1..chunks.num_pages :
      PagesOfChunk[i].page_type =
        (IF chunks.use_dictionary /\ i = 1 THEN "DICTIONARY_PAGE" ELSE "DATA_PAGE")

\* a dictionary page followed by at least two data pages, all encoded
C8_Witness ==
  /\ Encoded
  /\ chunks.use_dictionary
  /\ chunks.num_pages >= 3
  /\ PagesOfChunk[1].page_type = "DICTIONARY_PAGE"
  /\ PagesOfChunk[3].page_type = "DATA_PAGE"
  /\ PagesOfChunk[3].start_row > 0

\* compression status and bytes written that page i of the chunk reports
StatusOf(i) ==
  IF PagesOfChunk[i].comp_stat = -1 THEN 0
  ELSE At(comp_stats, PagesOfChunk[i].comp_stat).status

WrittenOf(i) ==
  IF PagesOfChunk[i].comp_stat = -1 THEN 0
  ELSE At(comp_stats, PagesOfChunk[i].comp_stat).bytes_written

SumCompressed == SumSeq([i \in 1..chunks.num_pages |-> WrittenOf(i)])

SumUncompressed == SumSeq([i \in 1..chunks.num_pages |-> PagesOfChunk[i].max_data_size])

\* C10 as stated: is_compressed is true if and only if no page of the chunk
\* reports a non-zero compression status and the summed compressed bytes are
\* strictly less than the summed uncompressed page data bytes.
C10_CompressedIffNoErrorAndSmaller ==
  ppc = "done" =>
    (chunks.is_compressed <=>
       /\ \A i \in 1..chunks.num_pages : StatusOf(i) = 0
       /\ SumCompressed < SumUncompressed)

\* C10 amended: is_compressed is true if and only if some page of the chunk
\* carries a compression status (compression ran), no page reports a non-zero
\* status and the summed compressed bytes are strictly less than the summed
\* uncompressed bytes; a failing page forces is_compressed = FALSE, and whenever
\* is_compressed is FALSE compressed_size is the uncompressed total.
C10_CompressedIffRanNoErrorAndSmaller ==
  ppc = "done" =>
    /\ chunks.is_compressed <=>
         /\ \E i \in 1..chunks.num_pages : PagesOfChunk[i].comp_stat # -1
         /\ \A i \in 1..chunks.num_pages : StatusOf(i) = 0
         /\ SumCompressed < SumUncompressed
    /\ (\E i \in 1..chunks.num_pages : StatusOf(i) # 0) => ~chunks.is_compressed
    /\ chunks.compressed_size =
         (IF chunks.is_compressed THEN SumCompressed ELSE SumUncompressed)
    /\ chunks.bfr_size = SumUncompressed

\* one page failed to compress while another one shrank
C10_Witness ==
  /\ ppc = "done"
  /\ chunks.num_pages >= 2
  /\ \E i, j \in 1..chunks.num_pages :
       /\ StatusOf(i) # 0
       /\ StatusOf(j) = 0
       /\ WrittenOf(j) < PagesOfChunk[j].max_data_size
  /\ ~chunks.is_compressed
  /\ chunks.compressed_size = SumUncompressed

(***************************************************************************)
(* Properties of the page planner: buffer regions and the byte ceiling     *)
(***************************************************************************)
\* gpuInitPages has returned and no page has been encoded yet
JustPlanned == ppc = "encode" /\ page_out = <<>>

\* first byte and the byte after the last of the region reserved for page i
RegionStart(i) == PagesOfChunk[i].page_data

RegionEnd(i) ==
  PagesOfChunk[i].page_data + PagesOfChunk[i].max_hdr_size + PagesOfChunk[i].max_data_size

\* C13: after gpuInitPages the reserved regions [page_data, page_data +
\* max_hdr_size + max_data_size) of two distinct pages of the chunk do not
\* overlap, and every region lies inside [0, bfr_size) of the chunk's buffer.
C13_PageRegionsDisjointInsideBuffer ==
  JustPlanned =>
    /\ \A i \in 1..chunks.num_pages :
         RegionStart(i) >= 0 /\ RegionEnd(i) <= chunks.bfr_size
    /\ \A i, j \in 1..chunks.num_pages :
         i # j => (RegionEnd(i) <= RegionStart(j) \/ RegionEnd(j) <= RegionStart(i))

\* a dictionary page and two data pages have been laid out back to back
C13_Witness ==
  /\ JustPlanned
  /\ chunks.use_dictionary
  /\ chunks.num_pages >= 3
  /\ RegionStart(2) = RegionEnd(1)
  /\ RegionStart(3) = RegionEnd(2)
  /\ RegionEnd(3) = chunks.bfr_size

\* the planner is about to look at a further fragment while the page being
\* filled holds values and is within the row limit
FillingPage ==
  /\ ppc = "loop"
  /\ planner.values_in_page > 0
  /\ planner.num_rows < chunks.num_rows
  /\ planner.rows_in_page <= params.max_page_size_rows

\* the size that the next fragment adds to the page
NextFragmentSize ==
  IF chunks.use_dictionary THEN At(frag, planner.fragments_in_chunk).num_leaf_values * 2
  ELSE At(frag, planner.fragments_in_chunk).fragment_data_size

\* the ceiling as the claim words it: 512 KiB, 384 KiB once the values filled
\* pass 50% of the chunk's values, 256 KiB past 66%, capped by max_page_size_bytes
ClaimedCeiling(v) ==
  Min(IF v * 100 > chunks.num_values * 66 THEN 256 * 1024
      ELSE IF v * 2 > chunks.num_values THEN 384 * 1024
      ELSE 512 * 1024,
      params.max_page_size_bytes)

\* the ceiling with the thresholds of the code: 256 KiB once the page holds at
\* least half of the chunk's values, 384 KiB once it holds at least a third
AdaptiveCeiling(v) ==
  Min(IF v * 2 >= chunks.num_values THEN 256 * 1024
      ELSE IF v * 3 >= chunks.num_values THEN 384 * 1024
      ELSE 512 * 1024,
      params.max_page_size_bytes)

\* C16 as stated: a page that holds values and is within the row limit is
\* closed before the next fragment exactly when the fragment would take it past
\* the ceiling 512 KiB / 384 KiB past 50% / 256 KiB past 66% of the chunk's
\* values, capped by max_page_size_bytes.
C16_CeilingHalfTwoThirds ==
  [][FillingPage =>
       ((planner'.num_pages = planner.num_pages + 1)
          <=> planner.page_size + NextFragmentSize > ClaimedCeiling(planner.values_in_page))]_vars

\* C16 amended: the page is closed before the next fragment exactly when the
\* fragment would take it past the ceiling, which is 256 KiB once the page
\* holds at least half of the chunk's values, 384 KiB once it holds at least a
\* third, 512 KiB before, and max_page_size_bytes whenever that is smaller.
C16_CeilingThirdHalf ==
  [][FillingPage =>
       ((planner'.num_pages = planner.num_pages + 1)
          <=> planner.page_size + NextFragmentSize > AdaptiveCeiling(planner.values_in_page))]_vars

\* a page that holds a third of the chunk's values has been closed because of
\* the 384 KiB ceiling: with the next fragment it would have held 512 KiB
C16_Witness ==
  /\ ppc = "loop"
  /\ params.max_page_size_bytes = 512 * 1024
  /\ chunks.num_values = 3
  /\ planner.num_pages = 1
  /\ planner.fragments_in_chunk = 2
  /\ planner.values_in_page = 1
  /\ At(pages, chunks.first_page).page_type = "DATA_PAGE"
  /\ At(pages, chunks.first_page).num_values = 1
  /\ At(frag, 0).fragment_data_size + At(frag, 1).fragment_data_size = 512 * 1024


(***************************************************************************)
(* A chunk with enough distinct values for a dictionary index wider than   *)
(* one bit: an INT32 column of n distinct valid values.                    *)
(***************************************************************************)
MinWideRows == 33

\* width of the dictionary indices of a dictionary of n entries
RECURSIVE DictRleBits(_)
DictRleBits(n) == IF n <= 2 THEN 1 ELSE 1 + DictRleBits((n + 1) \div 2)

InitWideChunk ==
  /\ \E nullable \in BOOLEAN, n \in MinWideRows..(MinWideRows + 1), dict \in BOOLEAN :
       LET leaf == [k \in 1..n |-> [valid |-> TRUE, v |-> k - 1]]
       IN  /\ col_desc = [physical_type |-> "INT32", nullable |-> nullable, leaf |-> leaf,
                          num_rows |-> n]
           /\ chunks = [start_row |-> 0, num_rows |-> n, num_values |-> n,
                        first_page |-> FirstPage, ck_stat_size |-> 0,
                        use_dictionary |-> dict,
                        dict_rle_bits |-> IF dict THEN DictRleBits(n) ELSE 0,
                        dict_data |-> IF dict THEN DictData(leaf) ELSE <<>>,
                        dict_index |-> IF dict THEN DictIndex(leaf) ELSE <<>>,
                        num_dict_entries |-> IF dict THEN n ELSE 0,
                        uniq_data_size |-> IF dict THEN n * physical_type_len("INT32") ELSE 0,
                        num_pages |-> 0, bfr_size |-> 0, page_headers_size |-> 0,
                        max_page_data_size |-> 0, is_compressed |-> FALSE,
                        compressed_size |-> 0]
           /\ pages = [k \in 1..(FirstPage + n + 2) |-> NoPage]
  /\ params \in [fragment_size : {16, 32},
                 max_page_size_bytes : {64, 512 * 1024},
                 max_page_size_rows : {20, 20000},
                 compression : BOOLEAN,
                 stats : {"NONE"}]
  /\ comp_stats = IF params.compression THEN [k \in 1..Len(pages) |-> NoStat] ELSE <<>>
  /\ frag = <<>>
  /\ page_out = <<>>
  /\ hdr_out = <<>>
  /\ gather_out = <<>>
  /\ planner = <<>>
  /\ ppc = "fragments"
  /\ RleUnused
  /\ DremelUnused

SpecWide == InitWideChunk /\ [][NextPages]_vars

\* the chunk still carries the bfr_size that gpuInitPages computed
BeforeDecide == ppc \in {"encode", "compress", "decide"}

\* max_data_size as gpuInitPages reserved it for page i: the room between the
\* end of its header and the region of the next page (or the end of the buffer)
ReservedDataSize(i) ==
  (IF i < chunks.num_pages THEN PagesOfChunk[i + 1].page_data ELSE chunks.bfr_size)
    - PagesOfChunk[i].page_data - PagesOfChunk[i].max_hdr_size

\* C14: for every data page that gpuEncodePages has encoded, the number of
\* bytes written (level streams plus values) is at most the max_data_size that
\* gpuInitPages reserved for the page.
C14_WrittenWithinReserved ==
  BeforeDecide =>
    \A i \in 1..Len(page_out) :
      PagesOfChunk[i].page_type = "DATA_PAGE" =>
        PagesOfChunk[i].max_data_size <= ReservedDataSize(i)


\* the number of data bytes of page i of the chunk that go to the file: what
\* the compressor wrote if the chunk is compressed, else what gpuEncodePages
\* wrote
DataSize(i) ==
  IF chunks.is_compressed THEN At(comp_stats, chunks.first_page + i - 1).bytes_written
  ELSE Len(page_out[i].levels) + Len(page_out[i].values) + page_out[i].plain_size

\* C11: gpuGatherPages lays the chunk out as one contiguous region that
\* starts right after the chunk statistics: in increasing page index every
\* header (hdr_size bytes) is immediately followed by the page's data
\* (compressed or not as is_compressed says), which is immediately followed by
\* the next header, and compressed_size is the sum of hdr_size + data size
\* over the pages.
C11_GatheredContiguous ==
  ppc = "written" =>
    LET segs == gather_out.segs
    IN  /\ Len(segs) = chunks.num_pages
        /\ 0 \in DOMAIN hdr_out => hdr_out[0].len = chunks.ck_stat_size
        /\ 0 \notin DOMAIN hdr_out => chunks.ck_stat_size = 0
        /\ \A i \in 1..Len(segs) :
             /\ segs[i].page = i - 1
             /\ segs[i].hdr_dst = IF i = 1 THEN chunks.ck_stat_size
                                  ELSE segs[i - 1].data_dst + segs[i - 1].data_len
             /\ segs[i].hdr_len = hdr_out[i].len
             /\ segs[i].data_dst = segs[i].hdr_dst + segs[i].hdr_len
             /\ segs[i].data_len = DataSize(i)
             /\ segs[i].src = IF chunks.is_compressed THEN "compressed_data" ELSE "page_data"
        /\ chunks.compressed_size
             = SumSeq([i \in 1..chunks.num_pages |-> hdr_out[i].len + DataSize(i)])

C11_Witness ==
  /\ ppc = "written"
  /\ chunks.is_compressed
  /\ chunks.num_pages = 2
  /\ chunks.ck_stat_size > 0
  /\ gather_out.segs[1].hdr_dst = chunks.ck_stat_size
  /\ gather_out.segs[2].hdr_dst > gather_out.segs[1].data_dst
  /\ gather_out.segs[2].data_len > 0

\* C15: every header that gpuEncodePageHeaders has serialized, page
\* statistics included, takes hdr_size <= max_hdr_size bytes, the room that
\* gpuInitPages reserved in front of the page's data.
C15_HeaderWithinReserved ==
  \A i \in DOMAIN hdr_out \ {0} :
    /\ PagesOfChunk[i].hdr_size = hdr_out[i].len
    /\ PagesOfChunk[i].hdr_size <= PagesOfChunk[i].max_hdr_size

\* a data page header with string statistics that needs the room reserved
\* for them
C15_Witness ==
  /\ ppc = "written"
  /\ params.stats = "PAGE"
  /\ col_desc.physical_type = "BYTE_ARRAY"
  /\ \E i \in DOMAIN hdr_out \ {0} :
       /\ PagesOfChunk[i].page_type = "DATA_PAGE"
       /\ PageStats(PagesOfChunk[i]).has_minmax
       /\ PagesOfChunk[i].hdr_size > 32 + 16 + 5 * 3

(***************************************************************************)
(* gpuEncodePages is launched with one thread block per page.  The blocks  *)
(* run in any order: page_out is filled per page, together with the range  *)
(* [base, end) of the chunk buffer that the block wrote.                   *)
(***************************************************************************)
\* a cursor that starts at the header room of the first page of the buffer
cur_without_page_data(page) == page.max_hdr_size

\* s->cur at the start of the block: the byte behind the page's header room
cur_at_start(page) == page.page_data + page.max_hdr_size

\* what the block of a page writes, and the range [base, end) of the chunk
\* buffer that it writes to
BlockOutput(page) ==
  LET out == gpuEncodePages(page)
      base == cur_at_start(page)
  IN  [levels |-> out.levels, values |-> out.values, plain |-> out.plain,
       plain_size |-> out.plain_size, base |-> base,
       end |-> base + Len(out.levels) + Len(out.values) + out.plain_size]

\* the thread block of page i of the chunk (blockIdx.x = first_page + i - 1)
EncodePagesBlock ==
  /\ ppc = "encode"
  /\ \E i \in (1..chunks.num_pages) \ DOMAIN page_out :
       LET p == chunks.first_page + i - 1
           out == BlockOutput(At(pages, p))
       IN  /\ page_out' = [k \in DOMAIN page_out \cup {i} |->
                             IF k = i THEN out ELSE page_out[k]]
           /\ pages' = [pages EXCEPT
                          ![p + 1].max_data_size = out.end - out.base,
                          ![p + 1].comp_stat = IF comp_stats # <<>> THEN p ELSE @]
           /\ comp_stats' = IF comp_stats # <<>>
                              THEN [comp_stats EXCEPT
                                      ![p + 1] = [bytes_written |-> 0, status |-> -1]]
                              ELSE comp_stats
           /\ ppc' = IF DOMAIN page_out \cup {i} = 1..chunks.num_pages THEN "encoded"
                     ELSE "encode"
  /\ UNCHANGED <<params, col_desc, chunks, frag, planner, hdr_out, gather_out, dvars, rvars>>

InitEncode == InitWrite \/ InitWideChunk

NextEncode ==
  \/ InitPageFragments
  \/ InitPagesBegin
  \/ InitPagesIter
  \/ InitPagesEnd
  \/ InitEncoderPages
  \/ EncodePagesBlock

SpecEncode == InitEncode /\ [][NextEncode]_vars

C19_StatSizeNotReadWhileWritten ==
  \A i, j \in DOMAIN hdr_out \ {0} :
    hdr_out[i].ck_g_ck_stat_size = hdr_out[j].ck_g_ck_stat_size

(***************************************************************************)
(* The documented example: one nullable int32 column [1, 2, 3, 4, 5] with   *)
(* validity [1, 1, 1, 0, 1], written with max_page_size_rows = 100000.      *)
(***************************************************************************)
ExampleValues == <<1, 2, 3, 4, 5>>
ExampleValidity == <<1, 1, 1, 0, 1>>

\* the leaf row of the example whose int32 element (LeafInt32) is ExampleValues[k]
ExampleLeaf ==
  [k \in 1..Len(ExampleValues) |->
     [valid |-> ExampleValidity[k] = 1, v |-> ExampleValues[k] + 1]]

InitExampleChunk ==
  /\ \E dict \in BOOLEAN :
       LET leaf == ExampleLeaf
           n    == Len(leaf)
       IN  /\ col_desc = [physical_type |-> "INT32", nullable |-> TRUE, leaf |-> leaf,
                          num_rows |-> n]
           /\ chunks = [start_row |-> 0, num_rows |-> n, num_values |-> n,
                        first_page |-> FirstPage, ck_stat_size |-> 0,
                        use_dictionary |-> dict,
                        dict_rle_bits |-> IF dict THEN DictRleBits(Len(DictData(leaf))) ELSE 0,
                        dict_data |-> IF dict THEN DictData(leaf) ELSE <<>>,
                        dict_index |-> IF dict THEN DictIndex(leaf) ELSE <<>>,
                        num_dict_entries |-> IF dict THEN Len(DictData(leaf)) ELSE 0,
                        uniq_data_size |-> IF dict THEN Len(DictData(leaf)) * physical_type_len("INT32")
                                           ELSE 0,
                        num_pages |-> 0, bfr_size |-> 0, page_headers_size |-> 0,
                        max_page_data_size |-> 0, is_compressed |-> FALSE,
                        compressed_size |-> 0]
           /\ pages = [k \in 1..(FirstPage + n + 2) |-> NoPage]
  /\ params \in [fragment_size : (1..Len(ExampleValues)) \cup {5000},
                 max_page_size_bytes : {256 * 1024, 512 * 1024},
                 max_page_size_rows : {100000},
                 compression : BOOLEAN,
                 stats : {"NONE"}]
  /\ comp_stats = IF params.compression THEN [k \in 1..Len(pages) |-> NoStat] ELSE <<>>
  /\ frag = <<>>
  /\ page_out = <<>>
  /\ hdr_out = <<>>
  /\ gather_out = <<>>
  /\ planner = <<>>
  /\ ppc = "fragments"
  /\ RleUnused
  /\ DremelUnused

SpecExample == InitExampleChunk /\ [][NextPages]_vars

\* the int32 stored in the four little-endian bytes at b[p]
ReadInt32(b, p) ==
  b[p] + 256 * b[p + 1] + 65536 * b[p + 2]
    + 16777216 * (IF b[p + 3] >= 128 THEN b[p + 3] - 256 ELSE b[p + 3])

\* the definition levels a reader decodes from the level stream of page i
DecodedDefLevels(i) ==
  LET lv == page_out[i].levels
  IN  IF Len(lv) < 4 \/ Len(lv) # 4 + ReadInt32(lv, 1) THEN <<-1>>
      ELSE RleDecode(SubSeq(lv, 5, Len(lv)), 1, 1)

\* C17: writing the example column without a dictionary produces exactly one
\* data page with num_rows = 5 and num_values = 5; its definition-level stream
\* decodes to [1, 1, 1, 0, 1] (then only the padding of the bit-packed group)
\* and its value stream is the 4 valid values as 4-byte little-endian
\* integers, 16 bytes, nothing for the null.
C17_ExamplePage ==
  (Encoded /\ ~chunks.use_dictionary) =>
    /\ chunks.num_pages = 1
    /\ Len(page_out) = 1
    /\ PagesOfChunk[1].page_type = "DATA_PAGE"
    /\ PagesOfChunk[1].num_rows = 5
    /\ PagesOfChunk[1].num_values = 5
    /\ Len(DecodedDefLevels(1)) >= 5
    /\ SubSeq(DecodedDefLevels(1), 1, 5) = ExampleValidity
    /\ \A k \in 6..Len(DecodedDefLevels(1)) : DecodedDefLevels(1)[k] = 0
    /\ page_out[1].values = <<>>
    /\ page_out[1].plain = <<1, 0, 0, 0,  2, 0, 0, 0,  3, 0, 0, 0,  5, 0, 0, 0>>

C17_Witness ==
  /\ ppc = "done"
  /\ ~chunks.use_dictionary
  /\ col_desc.leaf = ExampleLeaf
  /\ params.fragment_size = 5000
  /\ params.max_page_size_rows = 100000
  /\ Len(page_out) = 1
  /\ page_out[1].levels = <<2, 0, 0, 0, 3, 23>>
  /\ Len(page_out[1].plain) = 16

(***************************************************************************)
(* A table is written column by column: a list column goes through         *)
(* get_dremel_data, the chunk of a flat column through the page kernels.   *)
(***************************************************************************)
InitTable == Init \/ InitChunk

NextTable == Next \/ NextPages

SpecTable == InitTable /\ [][NextTable]_vars

(***************************************************************************)
(* The dual reader (Parquet format).  A data page holds the definition     *)
(* levels (a 4-byte length, then a hybrid RLE stream) when the column is   *)
(* nullable, then the values: PLAIN (4 little-endian bytes per INT32; a    *)
(* 4-byte length and the bytes per BYTE_ARRAY) or, with a dictionary, one  *)
(* byte of bit width and a hybrid RLE stream of indices into the values of *)
(* the dictionary page.  Only the rows with the maximal definition level   *)
(* have a value stored.  Nested rows are assembled from the (rep, def)     *)
(* pairs: a slot whose definition level stops at a node is a null or an    *)
(* empty list there, and a slot with repetition level r continues the list *)
(* at depth r.                                                             *)
(***************************************************************************)
\* what the reader returns when a page cannot be parsed
BadRow == [valid |-> FALSE, v |-> -1]

\* n PLAIN values of physical type pt from position p of b (<<-1>>: malformed)
RECURSIVE PlainDecode(_, _, _, _)
PlainDecode(b, p, n, pt) ==
  IF n = 0 THEN <<>>
  ELSE IF p + 3 > Len(b) \/ \E k \in 0..3 : b[p + k] > 255 THEN <<-1>>
  ELSE IF pt = "BYTE_ARRAY"
    THEN IF p + 4 > Len(b) \/ b[p + 4] < 256 THEN <<-1>>
         ELSE IF StrBytes(b[p + 4] - 256) # ReadInt32(b, p) THEN <<-1>>
         ELSE <<b[p + 4]>> \o PlainDecode(b, p + 5, n - 1, pt)
    ELSE <<ReadInt32(b, p)>> \o PlainDecode(b, p + 4, n - 1, pt)

\* the value that the reader is expected to return for a leaf row
LeafElement(row) ==
  IF ~row.valid THEN [valid |-> FALSE, v |-> 0]
  ELSE [valid |-> TRUE,
        v |-> IF col_desc.physical_type = "BYTE_ARRAY" THEN StrBlock(row.v)
              ELSE LeafInt32(row.v)]

\* the rows read from data page i of the chunk, given the dictionary values
ReadDataPage(i, dict) ==
  LET page == PagesOfChunk[i]
      out  == page_out[i]
      n    == page.num_values
      lvl_len == IF Len(out.levels) >= 4 THEN ReadInt32(out.levels, 1) ELSE -1
      lvl_ok  == ~col_desc.nullable \/ Len(out.levels) = 4 + lvl_len
      decoded == IF col_desc.nullable /\ lvl_ok
                   THEN RleDecode(SubSeq(out.levels, 5, 4 + lvl_len), 1, 1)
                   ELSE [k \in 1..n |-> 1]
      defs    == IF Len(decoded) >= n THEN SubSeq(decoded, 1, n) ELSE <<>>
      nvalid  == Cardinality({k \in 1..Len(defs) : defs[k] = 1})
      indices == IF chunks.use_dictionary /\ nvalid > 0 /\ Len(out.values) >= 1
                   THEN RleDecode(Tail(out.values), 1, out.values[1])
                   ELSE <<>>
      vals    == IF chunks.use_dictionary
                   THEN IF Len(indices) >= nvalid
                             /\ \A k \in 1..nvalid : indices[k] \in 0..(Len(dict) - 1)
                          THEN [k \in 1..nvalid |-> dict[indices[k] + 1]]
                          ELSE <<>>
                   ELSE PlainDecode(out.plain, 1, nvalid, col_desc.physical_type)
      rank(k) == Cardinality({j \in 1..k : defs[j] = 1})
  IN  IF ~lvl_ok \/ Len(defs) # n \/ Len(vals) # nvalid THEN <<BadRow>>
      ELSE [k \in 1..n |->
              IF defs[k] = 1 THEN [valid |-> TRUE, v |-> vals[rank(k)]]
              ELSE [valid |-> FALSE, v |-> 0]]

RECURSIVE ReadPages(_, _)
ReadPages(i, dict) ==
  IF i > chunks.num_pages THEN <<>>
  ELSE (IF PagesOfChunk[i].page_type = "DATA_PAGE" THEN ReadDataPage(i, dict) ELSE <<>>)
         \o ReadPages(i + 1, dict)

\* the column read back from the pages of the chunk
ReadChunk ==
  ReadPages(1, IF chunks.use_dictionary
                 THEN PlainDecode(page_out[1].plain, 1, PagesOfChunk[1].num_values,
                                  col_desc.physical_type)
                 ELSE <<>>)

\* index in c.kind of the leaf node
LeafNode(c) == Len(c.kind) - 1

\* the leaf values stored for a list column: the valid leaves of the range
\* [column_offsets.back(), column_ends.back()), in order
LeafValuesWritten(c) ==
  SelectSeq(Counting(column_offsets(c)[Len(column_offsets(c))],
                     column_ends(c)[Len(column_ends(c))]),
            LAMBDA i : ~At(c.nullability, LeafNode(c)) \/ At(At(c.lev, LeafNode(c)).valid, i))

\* the logical value of row i of node l of column c
RECURSIVE LogicalValue(_, _, _)
LogicalValue(c, l, i) ==
  IF At(c.nullability, l) /\ ~At(At(c.lev, l).valid, i) THEN [t |-> "null"]
  ELSE IF At(c.kind, l) = "I" THEN [t |-> "leaf", i |-> i]
  ELSE IF At(c.kind, l) = "S" THEN [t |-> "struct", f |-> LogicalValue(c, l + 1, i)]
  ELSE [t |-> "list",
        e |-> [k \in 1..(At(At(c.lev, l).offsets, i + 1) - At(At(c.lev, l).offsets, i)) |->
                 LogicalValue(c, l + 1, At(At(c.lev, l).offsets, i) + k - 1)]]

LogicalRows(c) == [k \in 1..c.size |-> LogicalValue(c, 0, c.off + k - 1)]

\* record assembly: the value of node l that starts at slot cur.p, where d is
\* the definition level of the defined ancestors, r the list depth and cur.k
\* the number of stored values already consumed
RECURSIVE AssembleValue(_, _, _, _, _, _, _)
RECURSIVE AssembleList(_, _, _, _, _, _, _, _)
AssembleValue(c, l, zs, stored, d, r, cur) ==
  LET d1 == IF At(c.nullability, l) THEN d + 1 ELSE d
  IN  IF zs[cur.p].def < d1
        THEN [val |-> [t |-> "null"], p |-> cur.p + 1, k |-> cur.k]
      ELSE IF At(c.kind, l) = "I"
        THEN [val |-> [t |-> "leaf",
                       i |-> IF cur.k < Len(stored) THEN stored[cur.k + 1] ELSE -1],
              p |-> cur.p + 1, k |-> cur.k + 1]
      ELSE IF At(c.kind, l) = "S"
        THEN LET x == AssembleValue(c, l + 1, zs, stored, d1, r, cur)
             IN  [val |-> [t |-> "struct", f |-> x.val], p |-> x.p, k |-> x.k]
      ELSE IF zs[cur.p].def < d1 + 1
        THEN [val |-> [t |-> "list", e |-> <<>>], p |-> cur.p + 1, k |-> cur.k]
      ELSE AssembleList(c, l, zs, stored, d1 + 1, r + 1, cur, <<>>)

AssembleList(c, l, zs, stored, d, r, cur, acc) ==
  LET x == AssembleValue(c, l + 1, zs, stored, d, r, cur)
  IN  IF x.p <= Len(zs) /\ zs[x.p].rep = r
        THEN AssembleList(c, l, zs, stored, d, r, [p |-> x.p, k |-> x.k], Append(acc, x.val))
        ELSE [val |-> [t |-> "list", e |-> Append(acc, x.val)], p |-> x.p, k |-> x.k]

RECURSIVE AssembleRows(_, _, _, _)
AssembleRows(c, zs, stored, cur) ==
  IF cur.p > Len(zs) THEN <<>>
  ELSE LET x == AssembleValue(c, 0, zs, stored, 0, 0, cur)
       IN  <<x.val>> \o AssembleRows(c, zs, stored, [p |-> x.p, k |-> x.k])

MaxLevelBits == 3

\* the level widths a column may carry: wide enough for every level in lv
LevelBitsChoices(lv) ==
  {w \in 1..MaxLevelBits : \A k \in 1..Len(lv) : lv[k] < Pow2(w)}

\* row_to_value_idx: the index in the leaf column of the first leaf of a row
row_to_value_idx(c, row) ==
  LET r == column_ranges(c, 0, c.off + row, c.off + row)
  IN  IF r = <<>> THEN c.off + row ELSE r[Len(r)].off

\* the levels lvl_val_data[idx] that the lanes stage for the page
PageLevelValues(page, lvl_val_data) ==
  LET page_first_val_idx == At(col_desc.level_offsets, page.start_row)
      col_last_val_idx   == At(col_desc.level_offsets, col_desc.num_rows)
  IN  [k \in 1..page.num_values |->
         IF page_first_val_idx + k - 1 < col_last_val_idx
           THEN At(lvl_val_data, page_first_val_idx + k - 1) ELSE 0]

\* a variant that leaves the cursor where the stream began
cur_after_levels_unmoved(cur, rle_bytes) == cur

\* s->cur = rle_out when a level stream is closed
cur_after_levels(cur, rle_bytes) == cur + 4 + rle_bytes

\* the bytes bs stored from offset a on
StoreAt(a, bs) == [x \in a..(a + Len(bs) - 1) |-> bs[x - a + 1]]

\* the kernel is launched on one data page of the chunk of the list column:
\* thread 0 resets state_g and sets s->cur = page_data + max_hdr_size
ListPageBegin ==
  /\ dpc = "done"
  /\ ppc = "unused"
  /\ col.size >= 1
  /\ \E start_row \in 0..(col.size - 1), rb \in LevelBitsChoices(rep_level),
        db \in LevelBitsChoices(def_level) :
       \E num_rows \in 1..(col.size - start_row) :
         /\ col_desc' = [level_offsets |-> new_offsets, rep_values |-> rep_level,
                         def_values |-> def_level, num_rows |-> col.size,
                         rep_level_bits |-> rb, def_level_bits |-> db,
                         physical_type |-> "INT32"]
         /\ pages' = <<[page_type |-> "DATA_PAGE", page_data |-> 0, max_hdr_size |-> 32,
                        start_row |-> start_row, num_rows |-> num_rows,
                        num_values |-> At(new_offsets, start_row + num_rows)
                                         - At(new_offsets, start_row),
                        num_leaf_values |-> row_to_value_idx(col, start_row + num_rows)
                                              - row_to_value_idx(col, start_row)]>>
  /\ state_g' = [RleReset EXCEPT !.cur = 32]
  /\ page_out' = <<>>
  /\ ppc' = "rep"
  /\ UNCHANGED <<rin, nbits, rpc, dvars,
                 params, chunks, frag, comp_stats, planner, hdr_out, gather_out>>

\* encode_levels, entry: thread 0 resets the run state and sets
\* s->rle_out = s->cur + 4
EncodeLevelsBegin ==
  /\ ppc \in {"rep", "def"}
  /\ rpc = "unused"
  /\ rin' = PageLevelValues(pages[1], IF ppc = "rep" THEN col_desc.rep_values
                                                    ELSE col_desc.def_values)
  /\ nbits' = IF ppc = "rep" THEN col_desc.rep_level_bits ELSE col_desc.def_level_bits
  /\ state_g' = [state_g EXCEPT !.rle_run = 0, !.rle_pos = 0, !.rle_numvals = 0,
                                !.rle_out = <<>>]
  /\ rpc' = "idle"
  /\ UNCHANGED <<dvars, pvars>>

\* encode_levels, exit: lanes 0..3 store the length of the stream at
\* s->cur and thread 0 moves s->cur to s->rle_out
EncodeLevelsEnd ==
  /\ ppc \in {"rep", "def"}
  /\ rpc = "done"
  /\ LET rle_bytes == Len(state_g.rle_out)
     IN  /\ page_out' = StoreAt(state_g.cur, Bytes4(rle_bytes))
                          @@ StoreAt(state_g.cur + 4, state_g.rle_out) @@ page_out
         /\ state_g' = [state_g EXCEPT !.cur = cur_after_levels(state_g.cur, rle_bytes)]
  /\ rpc' = "unused"
  /\ ppc' = IF ppc = "rep" THEN "def" ELSE "values"
  /\ UNCHANGED <<rin, nbits, dvars,
                 params, col_desc, chunks, frag, pages, comp_stats, planner,
                 hdr_out, gather_out>>

\* the PLAIN bytes of the valid leaves among idx (leaf i holds the INT32 i)
RECURSIVE ListPlainValues(_)
ListPlainValues(idx) ==
  IF idx = <<>> THEN <<>>
  ELSE (IF Head(idx) < Len(At(col.lev, LeafNode(col)).valid)
           /\ (~At(col.nullability, LeafNode(col))
               \/ At(At(col.lev, LeafNode(col)).valid, Head(idx)))
          THEN Bytes4(Head(idx)) ELSE <<>>)
         \o ListPlainValues(Tail(idx))

\* the values: dst = s->cur, every valid leaf of the page is stored at dst
\* plus the summed length of the leaves before it, s->cur = dst + total_len
EncodeListValues ==
  /\ ppc = "values"
  /\ LET dst == state_g.cur
         page_start_val == row_to_value_idx(col, pages[1].start_row)
         bytes == ListPlainValues(Counting(page_start_val,
                                           page_start_val + pages[1].num_leaf_values))
     IN  /\ page_out' = StoreAt(dst, bytes) @@ page_out
         /\ state_g' = [state_g EXCEPT !.rle_run = 0, !.rle_pos = 0, !.rle_numvals = 0,
                                       !.rle_out = <<>>, !.cur = dst + Len(bytes)]
  /\ ppc' = "done"
  /\ UNCHANGED <<rin, nbits, rpc, dvars,
                 params, col_desc, chunks, frag, pages, comp_stats, planner,
                 hdr_out, gather_out>>

NextListPage ==
  \/ MergeLeaf \/ MergeLevel \/ Finish
  \/ ListPageBegin \/ EncodeLevelsBegin \/ RleFeed \/ RleIter \/ RleReturn
  \/ EncodeLevelsEnd \/ EncodeListValues

SpecListPage == Init /\ [][NextListPage]_vars

\* every byte of the page that has been stored: the closed regions and the
\* bytes of the level stream that RleEncode is writing at s->cur + 4
PageMemory ==
  IF ppc \in {"rep", "def"} /\ rpc \in {"idle", "loop", "done"}
    THEN StoreAt(state_g.cur + 4, state_g.rle_out) @@ page_out
    ELSE page_out

\* the 4-byte length at offset a and the stream of that length behind it
LevelRegion(a) ==
  LET len == ReadInt32([k \in 1..4 |-> page_out[a + k - 1]], 1)
  IN  [len |-> len, stream |-> [k \in 1..len |-> page_out[a + 4 + k - 1]],
       end |-> a + 4 + len]

\* the stream decodes to the levels lv, followed by the padding of the last
\* bit-packed group only
DecodesTo(stream, w, lv) ==
  LET d == RleDecode(stream, 1, w)
  IN  /\ Len(d) >= Len(lv)
      /\ Len(d) < Len(lv) + 8
      /\ SubSeq(d, 1, Len(lv)) = lv
      /\ \A k \in (Len(lv) + 1)..Len(d) : d[k] = 0

\* the layout of the page at the position ppc of the block
ListPageLayout ==
  LET page == pages[1]
      base == page.page_data + page.max_hdr_size
      rep  == LevelRegion(base)
      def  == LevelRegion(rep.end)
  IN  /\ ppc = "rep" => (page_out = <<>> /\ state_g.cur = base)
      /\ ppc \in {"def", "values", "done"} =>
           /\ DecodesTo(rep.stream, col_desc.rep_level_bits,
                        PageLevelValues(page, col_desc.rep_values))
           /\ base..(rep.end - 1) \subseteq DOMAIN page_out
      /\ ppc = "def" => (DOMAIN page_out = base..(rep.end - 1) /\ state_g.cur = rep.end)
      /\ ppc \in {"values", "done"} =>
           /\ DecodesTo(def.stream, col_desc.def_level_bits,
                        PageLevelValues(page, col_desc.def_values))
           /\ base..(def.end - 1) \subseteq DOMAIN page_out
      /\ ppc = "values" => (DOMAIN page_out = base..(def.end - 1) /\ state_g.cur = def.end)
      /\ ppc = "done" =>
           /\ DOMAIN page_out = base..(state_g.cur - 1)
           /\ state_g.cur >= def.end
           /\ (state_g.cur - def.end) % 4 = 0

\* one step of the block: the cursor does not move back, a stored byte is
\* not stored again with another value, and every byte stored by the step
\* lies at or behind the cursor
CursorForward ==
  /\ state_g'.cur >= state_g.cur
  /\ \A a \in DOMAIN PageMemory : a \in DOMAIN PageMemory' /\ PageMemory'[a] = PageMemory[a]
  /\ \A a \in DOMAIN PageMemory' \ DOMAIN PageMemory : a >= state_g.cur

\* C12: within a data page of a list column the repetition levels are
\* completely written before the definition levels and both before the
\* first value byte: nothing but the repetition-level region exists while
\* the definition levels are encoded, nothing but the two level regions
\* when the values begin; each level stream lies behind its own 4-byte
\* length and decodes to the levels of the page; the cursor s->cur only
\* moves forward and no step stores a byte before it.
C12_LevelsInOrderCursorForward ==
  /\ [](ppc \in {"rep", "def", "values", "done"} => ListPageLayout)
  /\ [][CursorForward]_vars

\* a page that starts at the second row of a column of nested lists has
\* been written: both level streams and at least one value
C12_Witness ==
  /\ ppc = "done"
  /\ Len(col.kind) = 3
  /\ pages[1].start_row = 1
  /\ pages[1].num_values >= 2
  /\ pages[1].num_leaf_values >= 1
  /\ LevelRegion(32).len >= 1
  /\ LevelRegion(LevelRegion(32).end).len >= 1
  /\ state_g.cur > LevelRegion(LevelRegion(32).end).end

(***************************************************************************)
(* gpuEncodePages on a data page of a column without lists: a leaf under a *)
(* chain of structs.  The definition levels are computed from the validity *)
(* masks of the chain and encoded with RleEncode behind a 4-byte length;   *)
(* the PLAIN INT32 values of the valid leaves follow.                      *)
(***************************************************************************)
\* chains without a list that are enumerated
StructChains == {<<"I">>, <<"S", "I">>, <<"S", "S", "I">>}

\* col.offset() of node l: only the top node is sliced
ColumnOffset(c, l) == IF l = 0 THEN c.off ELSE 0

\* a walk that goes on below a null level
RECURSIVE def_lvl_without_break(_, _, _, _)
def_lvl_without_break(c, l, row, def) ==
  LET d2 == IF At(c.nullability, l) /\ At(At(c.lev, l).valid, ColumnOffset(c, l) + row)
              THEN def + 1 ELSE def
  IN  IF At(c.kind, l) = "S"
        THEN def_lvl_without_break(c, l + 1, row + ColumnOffset(c, l), d2)
        ELSE d2

\* the lambda def_lvl of gpuEncodePages from node l on: row is the row in
\* node l, def the level counted so far
RECURSIVE def_lvl(_, _, _, _)
def_lvl(c, l, row, def) ==
  IF At(c.nullability, l) /\ ~At(At(c.lev, l).valid, ColumnOffset(c, l) + row)
    THEN def
    ELSE LET d2 == IF At(c.nullability, l) THEN def + 1 ELSE def
         IN  IF At(c.kind, l) = "S"
               THEN def_lvl(c, l + 1, row + ColumnOffset(c, l), d2)
               ELSE d2

\* the levels that the lanes stage for the rows of the page
PageDefLevels(page) ==
  [k \in 1..page.num_rows |->
     IF page.start_row + k - 1 < col.size THEN def_lvl(col, 0, page.start_row + k - 1, 0)
     ELSE 0]

\* the widths num_def_level_bits() may have: 0 without a nullable node,
\* else any width that holds the number of nullable nodes
DefLevelBitsChoices(c) ==
  IF \A l \in 0..(Len(c.kind) - 1) : ~At(c.nullability, l) THEN {0}
  ELSE {w \in 1..MaxLevelBits :
          Cardinality({l \in 0..(Len(c.kind) - 1) : At(c.nullability, l)}) < Pow2(w)}

\* a column of up to MaxRows rows, any validity masks, the top node sliced
InitStructChunk ==
  /\ \E kind \in StructChains, n \in 1..MaxRows :
       \E nullability \in [1..Len(kind) -> BOOLEAN], o \in 0..(n - 1) :
         \E lev \in [1..Len(kind) -> [valid : [1..n -> BOOLEAN], offsets : {<<>>}]] :
           /\ \A l \in 1..Len(kind) : ~nullability[l] => \A i \in 1..n : lev[l].valid[i]
           /\ col = [kind |-> kind, nullability |-> nullability, lev |-> lev,
                     off |-> o, size |-> n - o]
  /\ dpc = "unused"
  /\ level = -1
  /\ rep_level = <<>>
  /\ def_level = <<>>
  /\ new_offsets = <<>>
  /\ leaf_data_size = -1
  /\ RleUnused
  /\ PagesUnused

\* the block of one data page: levels (when the column has definition
\* levels), then values
EncodeStructPage ==
  /\ ppc = "unused"
  /\ dpc = "unused"
  /\ \E start_row \in 0..(col.size - 1), db \in DefLevelBitsChoices(col) :
       \E num_rows \in 1..(col.size - start_row) :
         LET page == [page_type |-> "DATA_PAGE", page_data |-> 0, max_hdr_size |-> 32,
                      start_row |-> start_row, num_rows |-> num_rows,
                      num_values |-> num_rows, num_leaf_values |-> num_rows]
             cur0 == page.page_data + page.max_hdr_size
             st   == IF db # 0 THEN EncodeLevels(RleReset, PageDefLevels(page), db)
                     ELSE RleReset
             cur1 == IF db # 0 THEN cur_after_levels(cur0, Len(st.rle_out)) ELSE cur0
             page_start_val == row_to_value_idx(col, start_row)
             bytes == ListPlainValues(Counting(page_start_val, page_start_val + num_rows))
         IN  /\ pages' = <<page>>
             /\ col_desc' = [num_rows |-> col.size, rep_level_bits |-> 0,
                             def_level_bits |-> db, physical_type |-> "INT32"]
             /\ page_out' = StoreAt(cur1, bytes)
                              @@ (IF db # 0
                                    THEN StoreAt(cur0, Bytes4(Len(st.rle_out)))
                                           @@ StoreAt(cur0 + 4, st.rle_out)
                                    ELSE <<>>)
             /\ state_g' = [st EXCEPT !.rle_run = 0, !.rle_pos = 0, !.rle_numvals = 0,
                                      !.rle_out = <<>>, !.cur = cur1 + Len(bytes)]
  /\ ppc' = "done"
  /\ UNCHANGED <<rin, nbits, rpc, dvars,
                 params, chunks, frag, comp_stats, planner, hdr_out, gather_out>>

SpecStruct == InitStructChunk /\ [][EncodeStructPage]_vars

\* nullable nodes of the chain
NullableNodes(c) == {l \in 0..(Len(c.kind) - 1) : At(c.nullability, l)}

\* nullable nodes that are null at row r of the slice
NullAt(c, r) == {l \in NullableNodes(c) : ~At(At(c.lev, l).valid, c.off + r)}

\* the number of nullable nodes above the first one that is null at row r
ValidBeforeFirstNull(c, r) ==
  Cardinality({l \in NullableNodes(c) : \A m \in NullAt(c, r) : l < m})

\* number of leaves of the page whose own validity bit is set
ValidLeaves(page) ==
  Cardinality({r \in page.start_row..(page.start_row + page.num_rows - 1) :
                 At(At(col.lev, LeafNode(col)).valid, col.off + r)})

\* C24: on a page of a column without lists nothing is written for
\* repetition levels: the page is one definition-level region (none when no
\* node is nullable) followed by the values; the definition level of row r
\* is the number of nullable nodes, from the root down the struct chain to
\* the leaf, above the first nullable node that is null at r.
C24_FlatDefLevels ==
  ppc = "done" =>
    LET page == pages[1]
        base == page.page_data + page.max_hdr_size
    IN  IF col_desc.def_level_bits = 0
          THEN /\ NullableNodes(col) = {}
               /\ DOMAIN page_out = base..(base + 4 * page.num_rows - 1)
               /\ state_g.cur = base + 4 * page.num_rows
          ELSE /\ DecodesTo(LevelRegion(base).stream, col_desc.def_level_bits,
                            [k \in 1..page.num_rows |->
                               ValidBeforeFirstNull(col, page.start_row + k - 1)])
               /\ state_g.cur = LevelRegion(base).end + 4 * ValidLeaves(page)
               /\ DOMAIN page_out = base..(state_g.cur - 1)

\* a page of two rows of a leaf under two nullable structs: the outer
\* struct is null at the first row although the nodes below it are valid
\* there, and the leaf is null at the second row
C24_Witness ==
  /\ ppc = "done"
  /\ col.kind = <<"S", "S", "I">>
  /\ col.nullability = <<TRUE, TRUE, TRUE>>
  /\ col.off = 0
  /\ pages[1].num_rows = 2
  /\ col.lev[1].valid = <<FALSE, TRUE>>
  /\ col.lev[2].valid = <<TRUE, TRUE>>
  /\ col.lev[3].valid = <<TRUE, FALSE>>
  /\ col_desc.def_level_bits = 2
  /\ LevelRegion(32).len >= 1

(***************************************************************************)
(* header_encoder on its own: any sequence of field calls with any field   *)
(* ids.  hdr_out holds the encoder, the number of calls made and the last  *)
(* call.  No member function returns a status or tests the order of the    *)
(* field ids, so every call is possible in every state.                    *)
(***************************************************************************)
\* calls made on one encoder
MaxHeaderCalls == 2

\* field ids that are passed
FieldIds == {1, 2, 17, 18, 70}

InitHeaderEncoder ==
  /\ DremelUnused
  /\ RleUnused
  /\ params = <<>> /\ col_desc = <<>> /\ chunks = <<>> /\ frag = <<>>
  /\ pages = <<>> /\ page_out = <<>> /\ comp_stats = <<>> /\ planner = <<>>
  /\ gather_out = <<>>
  /\ ppc = "header_encoder"
  /\ hdr_out = [enc |-> header_encoder, calls |-> 0,
                last |-> [op |-> "new", field |-> 0, type |-> 0]]

\* the state after a call that left the encoder enc
HeaderCall(enc, op, field, type) ==
  /\ hdr_out' = [enc |-> enc, calls |-> hdr_out.calls + 1,
                 last |-> [op |-> op, field |-> field, type |-> type]]
  /\ UNCHANGED <<params, col_desc, chunks, frag, pages, page_out, comp_stats, planner,
                 ppc, gather_out, dvars, rvars>>

CallFieldInt32 ==
  /\ ppc = "header_encoder"
  /\ hdr_out.calls < MaxHeaderCalls
  /\ \E field \in FieldIds, value \in {-1, 300} :
       HeaderCall(field_int32(hdr_out.enc, field, value), "field", field, ST_FLD_I32)

CallFieldInt64 ==
  /\ ppc = "header_encoder"
  /\ hdr_out.calls < MaxHeaderCalls
  /\ \E field \in FieldIds :
       HeaderCall(field_int64(hdr_out.enc, field, 70000), "field", field, ST_FLD_I64)

CallFieldBinary ==
  /\ ppc = "header_encoder"
  /\ hdr_out.calls < MaxHeaderCalls
  /\ \E field \in FieldIds :
       HeaderCall(field_binary(hdr_out.enc, field, <<7, 8>>, 2), "field", field,
                  ST_FLD_BINARY)

CallFieldStructBegin ==
  /\ ppc = "header_encoder"
  /\ hdr_out.calls < MaxHeaderCalls
  /\ \E field \in FieldIds :
       HeaderCall(field_struct_begin(hdr_out.enc, field), "struct_begin", field,
                  ST_FLD_STRUCT)

CallFieldStructEnd ==
  /\ ppc = "header_encoder"
  /\ hdr_out.calls < MaxHeaderCalls
  /\ \E field \in FieldIds :
       HeaderCall(field_struct_end(hdr_out.enc, field), "struct_end", field, 0)

CallEnd ==
  /\ ppc = "header_encoder"
  /\ hdr_out.last.op # "end"
  /\ \E termination_flag \in BOOLEAN :
       HeaderCall(encoder_end(hdr_out.enc, termination_flag), "end", 0, 0)

NextHeaderEncoder ==
  \/ CallFieldInt32 \/ CallFieldInt64 \/ CallFieldBinary
  \/ CallFieldStructBegin \/ CallFieldStructEnd \/ CallEnd

SpecHeaderEncoder == InitHeaderEncoder /\ [][NextHeaderEncoder]_vars

\* the field id in front of which a field is written is 1..15 smaller
InOrder(cur, field) == field > cur /\ field <= cur + 15

\* the step is a call that writes a field header
WritesFieldHeader ==
  /\ ppc = "header_encoder"
  /\ hdr_out'.calls = hdr_out.calls + 1
  /\ hdr_out'.last.op \in {"field", "struct_begin"}

\* the field header at the front of the bytes b, written behind field id cur
FieldHeaderShape(b, cur, field, type) ==
  IF InOrder(cur, field)
    THEN b[1] = (field - cur) * 16 + type
    ELSE /\ b[1] = type
         /\ Len(b) >= 2
         /\ VlqDecode(b, 2, VlqLen(b, 2)) = 2 * field

\* number of bytes of that field header
FieldHeaderLen(b, cur, field) == IF InOrder(cur, field) THEN 1 ELSE 1 + VlqLen(b, 2)

\* C26: every call of the header encoder is carried out whatever the order
\* of the field ids: a field whose id is 1..15 above the id written before
\* it gets a one-byte header (delta << 4 | type); any other field gets the
\* type byte followed by the zigzag varint of its id, two bytes or more, and
\* the encoder goes on from there (the bytes are appended, the id becomes
\* the current one).
C26_FieldHeaderForms ==
  [][WritesFieldHeader =>
       LET cur == hdr_out.enc.current_field_index
           new == AppendedTo(hdr_out.enc.len, hdr_out'.enc.out)
           f   == hdr_out'.last.field
       IN  /\ Len(hdr_out'.enc.out) = hdr_out'.enc.len
           /\ SubSeq(hdr_out'.enc.out, 1, hdr_out.enc.len) = hdr_out.enc.out
           /\ FieldHeaderShape(new, cur, f, hdr_out'.last.type)
           /\ FieldHeaderLen(new, cur, f) = (IF InOrder(cur, f) THEN 1
                                             ELSE IF f < 64 THEN 2 ELSE 3)
           /\ hdr_out'.enc.current_field_index =
                (IF hdr_out'.last.op = "struct_begin" THEN 0 ELSE f)]_vars

\* field 2 has been written behind field 17: three bytes for the first
\* field (header, value), then a two-byte header 0x05 0x04
C26_Witness ==
  /\ ppc = "header_encoder"
  /\ hdr_out.calls = 2
  /\ hdr_out.last = [op |-> "field", field |-> 2, type |-> ST_FLD_I32]
  /\ hdr_out.enc.current_field_index = 2
  /\ hdr_out.enc.out = <<5, 34, 1, 5, 4, 1>>

(***************************************************************************)
(* RleEncode called from the dictionary value loop of gpuEncodePages: a    *)
(* batch of 128 rows stages only its valid values, so a call adds 0..128   *)
(* values, and the flush call (the last batch of rows of the page) may add *)
(* none.  rin is the stream of the valid values of the page.               *)
(***************************************************************************)
\* numbers of valid values in a batch of rows
BatchChoices == {0, 25, 128}

\* a staging that begins at the read position instead of the write position
StageValuesAtReadPos(st, v, n) ==
  [p \in 0..(rle_buffer_size - 1) |->
     LET t == (p - st.rle_pos) % rle_buffer_size
     IN  IF t < n THEN At(v, st.rle_numvals + t) ELSE st.vals[p]]

\* s->vals after the valid lanes have stored their n values behind
\* rle_numvals
StageValues(st, v, n) ==
  [p \in 0..(rle_buffer_size - 1) |->
     LET t == (p - st.rle_numvals) % rle_buffer_size
     IN  IF t < n THEN At(v, st.rle_numvals + t) ELSE st.vals[p]]

\* the value loop stages the valid values of the next batch of rows and calls
\* RleEncode; flush is set in the last batch of rows, when every value has
\* been staged
RleFeedBatch ==
  /\ rpc = "idle"
  /\ \E n \in BatchChoices \cup {Min(Len(rin) - state_g.rle_numvals, block_size)},
        flush \in BOOLEAN :
       /\ n <= Len(rin) - state_g.rle_numvals
       /\ flush => state_g.rle_numvals + n = Len(rin)
       /\ state_g' = [state_g EXCEPT !.vals = StageValues(state_g, rin, n),
                         !.numvals = state_g.rle_numvals + n,
                         !.flush = flush,
                         !.brk = FALSE]
  /\ rpc' = "loop"
  /\ UNCHANGED <<rin, nbits, dvars, pvars>>

\* the streams of valid values: none at all, short and long runs and
\* stretches without equal neighbours, alone and next to each other; two
\* stretches of 260 values fill a literal run to its limit of 504 values
BatchStreams ==
  { <<>>,
    <<[rep |-> FALSE, len |-> 7]>>,
    <<[rep |-> TRUE, len |-> 7]>>,
    <<[rep |-> TRUE, len |-> 130]>>,
    <<[rep |-> TRUE, len |-> 26], [rep |-> FALSE, len |-> 7]>>,
    <<[rep |-> FALSE, len |-> 26], [rep |-> TRUE, len |-> 26]>>,
    <<[rep |-> FALSE, len |-> 260], [rep |-> FALSE, len |-> 260]>> }

InitRleBatches ==
  /\ nbits \in 1..16
  /\ \E segs \in BatchStreams : rin = SegsToSeq(segs, 1, nbits)
  /\ rpc = "idle"
  /\ state_g = RleReset
  /\ DremelUnused
  /\ PagesUnused

NextRleBatches == RleFeedBatch \/ RleIter \/ RleReturn

SpecRleBatches == InitRleBatches /\ [][NextRleBatches]_vars

\* RleEncode is inside its while loop and about to run an iteration
InLoop == rpc = "loop" /\ ~state_g.brk /\ RleLoopCond(state_g)

\* the iteration that is about to run changes nothing
Stuck == InLoop /\ RleIteration(state_g, nbits) = state_g

\* the threads of a block are scheduled until the kernel returns: weak
\* fairness WF_vars(RleIter \/ RleReturn), with the enabledness of the step
\* written out (the loop is entered and the iteration changes the state)
SpecRleBatchesFair ==
  /\ SpecRleBatches
  /\ \/ []<>(rpc # "loop" \/ Stuck)
     \/ []<><<RleIter \/ RleReturn>>_vars

\* the iteration from st to nx leaves the loop
LeavesLoop(nx) == nx.brk \/ ~RleLoopCond(nx)

\* the run that was open in st has been written in nx
EndsRun(st, nx) == st.rle_run # 0 /\ Len(nx.rle_out) > Len(st.rle_out)

\* 2 * (values not yet consumed) + (1 if a run is open)
LoopMeasure(st) == 2 * (st.numvals - st.rle_pos) + (IF st.rle_run # 0 THEN 1 ELSE 0)

IterationProgress(st, nx) ==
  /\ nx.rle_pos >= st.rle_pos
  /\ nx.rle_pos <= st.numvals
  /\ LeavesLoop(nx) \/ nx.rle_pos > st.rle_pos \/ EndsRun(st, nx)
  /\ LeavesLoop(nx) \/ LoopMeasure(nx) < LoopMeasure(st)

\* C27: every call of RleEncode returns, for every width, input and split
\* into batches, a flush call without new values included: the iteration
\* about to run advances rle_pos, writes the open run or leaves the loop (and
\* 2 * (numvals - rle_pos) + [a run is open] decreases while it stays), a
\* call that has been entered is left, and after the flush call rle_pos is
\* the number of values and rle_run is 0.
C27_RleEncodeTerminates ==
  /\ [](InLoop => IterationProgress(state_g, RleIteration(state_g, nbits)))
  /\ [](rpc = "done" => /\ state_g.rle_pos = Len(rin)
                        /\ state_g.rle_numvals = Len(rin)
                        /\ state_g.rle_run = 0)
  /\ (rpc = "loop") ~> (rpc # "loop")

\* 7 different 4-bit values were staged by a call without flush, which has
\* to leave them for the next call; the flush call added nothing and its loop
\* has ended with the 7 values written as one literal run
C27_Witness ==
  /\ rpc = "loop"
  /\ nbits = 4
  /\ Len(rin) = 7
  /\ state_g.flush
  /\ state_g.numvals = state_g.rle_numvals
  /\ ~RleLoopCond(state_g)
  /\ state_g.rle_pos = 7
  /\ state_g.rle_run = 0
  /\ Len(state_g.rle_out) = 5
  /\ state_g.rle_out[1] = 3

(***************************************************************************)
(* The staging buffer s->vals under its three writers: the level loops     *)
(* (all 128 lanes store, RleEncode reads), the dictionary value loop (the  *)
(* valid lanes store, RleEncode reads) and the value loop of BOOLEAN       *)
(* columns in a build without ENABLE_BOOL_RLE (PlainBoolEncode reads).     *)
(* ppc tells which loop is running.                                        *)
(***************************************************************************)
\* the byte that lane 8 * k of PlainBoolEncode stores: bit j is the value at
\* pos + j, 0 past numvals
BoolByte(st, pos) ==
  SumSeq([j \in 1..8 |->
            IF pos + j - 1 < st.numvals
              THEN ValAt(st, pos + j - 1) * Pow2(j - 1) ELSE 0]) % 256

\* the while loop of PlainBoolEncode
RECURSIVE PlainBoolLoop(_)
PlainBoolLoop(st) ==
  IF st.rle_pos >= st.numvals THEN st
  ELSE LET n == Min(st.numvals - st.rle_pos, block_size)
           nbytes == (n + (IF st.flush THEN 7 ELSE 0)) \div 8
       IN  IF nbytes = 0 THEN st
           ELSE PlainBoolLoop(
                  [st EXCEPT
                     !.rle_out = @ \o [k \in 1..nbytes |->
                                         BoolByte(st, st.rle_pos + 8 * (k - 1))],
                     !.rle_pos = Min(st.rle_pos + nbytes * 8, st.numvals)])

\* a whole call PlainBoolEncode(s, numvals, flush, t)
PlainBoolEncode(st, numvals, flush) ==
  [PlainBoolLoop([st EXCEPT !.numvals = numvals, !.flush = flush])
     EXCEPT !.rle_numvals = numvals]

InitStaging ==
  /\ nbits \in 1..16
  /\ \E segs \in BatchStreams : rin = SegsToSeq(segs, 1, nbits)
  /\ rpc = "idle"
  /\ state_g = RleReset
  /\ DremelUnused
  /\ params = <<>> /\ col_desc = <<>> /\ chunks = <<>> /\ frag = <<>>
  /\ pages = <<>> /\ page_out = <<>> /\ comp_stats = <<>> /\ planner = <<>>
  /\ hdr_out = <<>> /\ gather_out = <<>>
  /\ ppc \in {"levels", "values", "bool"}
  /\ ppc = "bool" => nbits = 1

\* a level loop stages 128 lanes and calls RleEncode
LevelsBatch == ppc = "levels" /\ RleFeed

\* the dictionary value loop stages the valid values and calls RleEncode
ValuesBatch == ppc = "values" /\ RleFeedBatch

\* the value loop of a BOOLEAN column stages the valid values and calls
\* PlainBoolEncode
PlainBoolBatch ==
  /\ ppc = "bool"
  /\ rpc = "idle"
  /\ \E n \in BatchChoices \cup {Min(Len(rin) - state_g.rle_numvals, block_size)},
        flush \in BOOLEAN :
       /\ n <= Len(rin) - state_g.rle_numvals
       /\ flush => state_g.rle_numvals + n = Len(rin)
       /\ state_g' = PlainBoolEncode(
                       [state_g EXCEPT !.vals = StageValues(state_g, rin, n)],
                       state_g.rle_numvals + n, flush)
       /\ rpc' = IF flush THEN "done" ELSE "idle"
  /\ UNCHANGED <<rin, nbits, dvars, pvars>>

NextStaging == LevelsBatch \/ ValuesBatch \/ PlainBoolBatch \/ RleIter \/ RleReturn

SpecStaging == InitStaging /\ [][NextStaging]_vars

\* number of values staged so far
Staged == IF rpc = "loop" THEN state_g.numvals ELSE state_g.rle_numvals

\* C28: s->vals never loses a value: every value that is staged and not yet
\* consumed (positions rle_pos .. rle_numvals - 1, and up to numvals - 1
\* inside a call) is still in its slot, and between calls the values waiting
\* plus a whole batch of 128 lanes fit into the 512 slots.
C28_StagedValuesIntact ==
  /\ \A p \in state_g.rle_pos..(Staged - 1) : ValAt(state_g, p) = At(rin, p)
  /\ state_g.rle_pos <= Staged
  /\ Staged - state_g.rle_pos <= rle_buffer_size
  /\ rpc = "idle" => state_g.rle_numvals - state_g.rle_pos + block_size <= rle_buffer_size

\* the dictionary value loop has staged a batch that runs past slot 511 into
\* slots used before, while values of an earlier batch still wait
C28_Witness ==
  /\ ppc = "values"
  /\ rpc = "loop"
  /\ state_g.numvals > rle_buffer_size
  /\ state_g.numvals > state_g.rle_numvals
  /\ state_g.rle_numvals < rle_buffer_size
  /\ state_g.rle_pos < state_g.rle_numvals

(***************************************************************************)
(* A dictionary-encoded chunk whose indices take 9 bits and whose first    *)
(* data page alternates 8 different values with 3 equal ones, through all  *)
(* kernels of the writer.                                                  *)
(***************************************************************************)
\* groups of 8 different and 3 equal values in the first data page
RunGroups == 44

\* the value of row i: every group of 11 rows brings 9 new values, the last
\* of them three times
RunsLeaf(n) ==
  [k \in 1..n |-> [valid |-> TRUE, v |-> 2 + 9 * ((k - 1) \div 11) + Min((k - 1) % 11, 8)]]

\* dict_data of RunsLeaf(n): value 2 + 9 * g + j is entry 9 * g + j of the
\* dictionary and occurs first in row 11 * g + j
RunsDictData(n) ==
  [k \in 1..(9 * ((n - 1) \div 11) + Min((n - 1) % 11, 8) + 1) |->
     11 * ((k - 1) \div 9) + ((k - 1) % 9)]

\* dict_index of RunsLeaf(n)
RunsDictIndex(n) == [k \in 1..n |-> 9 * ((k - 1) \div 11) + Min((k - 1) % 11, 8)]

InitRunsChunk ==
  /\ \E nullable \in BOOLEAN, n \in {11 * RunGroups + 2} :
       LET leaf == RunsLeaf(n)
           dd == RunsDictData(n)
       IN  /\ col_desc = [physical_type |-> "INT32", nullable |-> nullable, leaf |-> leaf,
                          num_rows |-> n]
           /\ chunks = [start_row |-> 0, num_rows |-> n, num_values |-> n,
                        first_page |-> FirstPage, ck_stat_size |-> 0,
                        use_dictionary |-> TRUE,
                        dict_rle_bits |-> DictRleBits(Len(dd)),
                        dict_data |-> dd,
                        dict_index |-> RunsDictIndex(n),
                        num_dict_entries |-> Len(dd),
                        uniq_data_size |-> Len(dd) * physical_type_len("INT32"),
                        num_pages |-> 0, bfr_size |-> 0, page_headers_size |-> 0,
                        max_page_data_size |-> 0, is_compressed |-> FALSE,
                        compressed_size |-> 0]
           /\ \E compression \in BOOLEAN :
                comp_stats = IF compression THEN [k \in 1..(FirstPage + 3) |-> NoStat]
                             ELSE <<>>
  /\ params \in [fragment_size : {11 * RunGroups + 1},
                 max_page_size_bytes : {512 * 1024},
                 max_page_size_rows : {20},
                 compression : {comp_stats # <<>>},
                 stats : {"NONE"}]
  /\ pages = <<>>
  /\ frag = <<>>
  /\ page_out = <<>>
  /\ hdr_out = <<>>
  /\ gather_out = <<>>
  /\ planner = <<>>
  /\ ppc = "fragments"
  /\ RleUnused
  /\ DremelUnused

SpecRuns == InitRunsChunk /\ [][NextWrite]_vars

\* C29: when gpuGatherPages copies page i of a chunk that is stored
\* uncompressed, its destination is at or before the start of the region
\* that gpuInitPages reserved for page i (so everything written so far lies
\* in front of the bytes still to be read), and the chunk statistics end at
\* or before the region of the first page.
C29_GatherBehindSource ==
  ppc = "written" /\ ~chunks.is_compressed =>
    /\ \A i \in 1..chunks.num_pages : gather_out.segs[i].hdr_dst <= PagesOfChunk[i].page_data
    /\ chunks.ck_stat_size <= PagesOfChunk[1].page_data

(***************************************************************************)
(* The sizes a page header states, read back from its bytes: PageHeader    *)
(* fields 1 (type), 2 (uncompressed_page_size) and 3 (compressed_page_size)*)
(* are i32 fields, each a header byte 0x15 and a zigzag varint.            *)
(***************************************************************************)
ZigZagDecode(z) == IF z % 2 = 0 THEN z \div 2 ELSE -((z + 1) \div 2)

\* the i32 field whose header byte is at position p of the bytes b
ReadI32Field(b, p) ==
  [ok |-> b[p] = 16 + ST_FLD_I32,
   value |-> ZigZagDecode(VlqDecode(b, p + 1, VlqLen(b, p + 1))),
   next |-> p + 1 + VlqLen(b, p + 1)]

HeaderSizes(b) ==
  LET f1 == ReadI32Field(b, 1)
      f2 == ReadI32Field(b, f1.next)
      f3 == ReadI32Field(b, f2.next)
  IN  [ok |-> f1.ok /\ f2.ok /\ f3.ok,
       uncompressed_page_size |-> f2.value,
       compressed_page_size |-> f3.value]

\* the number of bytes that gpuEncodePages wrote for page i of the chunk
EncodedSize(i) ==
  Len(page_out[i].levels) + Len(page_out[i].values) + page_out[i].plain_size

\* where the data of page i ends in the gathered chunk: at the next header, or
\* at the end of the chunk
GatheredDataEnd(i) ==
  IF i < chunks.num_pages THEN gather_out.segs[i + 1].hdr_dst ELSE gather_out.dst

\* C30: when gpuGatherPages has run behind gpuEncodePages,
\* gpuDecideCompression and gpuEncodePageHeaders, the header of every page
\* states as uncompressed_page_size the number of bytes gpuEncodePages wrote
\* for the page and as compressed_page_size the number of bytes that lie
\* between the end of this header and the next header in the gathered chunk;
\* for a chunk that is stored uncompressed the two are equal.
C30_HeaderSizesMatchBytes ==
  ppc = "written" =>
    \A i \in 1..chunks.num_pages :
      LET h == HeaderSizes(hdr_out[i].out)
          seg == gather_out.segs[i]
      IN  /\ h.ok
          /\ h.uncompressed_page_size = EncodedSize(i)
          /\ seg.data_dst = seg.hdr_dst + hdr_out[i].len
          /\ h.compressed_page_size = GatheredDataEnd(i) - seg.data_dst
          /\ h.compressed_page_size = seg.data_len
          /\ ~chunks.is_compressed => h.compressed_page_size = h.uncompressed_page_size

\* a compressed chunk of two pages has been gathered, and the header of its
\* second page states a compressed size below the uncompressed size
C30_Witness ==
  /\ ppc = "written"
  /\ chunks.is_compressed
  /\ chunks.num_pages = 2
  /\ HeaderSizes(hdr_out[2].out).compressed_page_size
       < HeaderSizes(hdr_out[2].out).uncompressed_page_size
  /\ HeaderSizes(hdr_out[2].out).uncompressed_page_size = EncodedSize(2)

====
